---------------------------- MODULE Spec2Model ----------------------------
(***************************************************************************)
(* States of Matter: the multi-particle model (MultipleParticleModel) and  *)
(* the pressure/explosion logic of the Verlet integrator                   *)
(* (AbstractVerletAlgorithm).                                              *)
(*                                                                         *)
(* Units.  Time is in milliseconds (the source uses seconds): a frame's dt *)
(* is a multiple of 4 ms, so that dt * rate / 1000 is exact for the lid    *)
(* rates.  Temperatures are in 1e-5 normalized units (MIN_TEMPERATURE = 1).*)
(* Heights are in model units; the lid's travel in a frame, rate * dt, is  *)
(* exact for a dt that is a multiple of 4 ms.  Wall pressure contributions *)
(* are multiples of 12, so that total / PRESSURE_CALC_TIME_WINDOW is exact.*)
(*                                                                         *)
(* The motion of the individual molecules (positions, velocities, forces)  *)
(* is not integrated here.  What the integrator hands to the rest of the   *)
(* model in one call of updateForcesAndMotion - the wall pressure of the   *)
(* call, whether a molecule reached the moving lid, the kinetic            *)
(* temperature, which molecule crossed the container's outline - is an     *)
(* input of the step, drawn from small sets.                               *)
(***************************************************************************)
EXTENDS Integers, Sequences, FiniteSets, TLC

(***************************************************************************)
(* Program constants.                                                      *)
(***************************************************************************)
PARTICLE_CONTAINER_INITIAL_HEIGHT == 10000
MIN_ALLOWABLE_CONTAINER_HEIGHT == 1500
MAX_CONTAINER_SHRINK_RATE == 1250
MAX_CONTAINER_EXPAND_RATE == 1500
POST_EXPLOSION_CONTAINER_EXPANSION_RATE == 9000
PARTICLE_SPEED_UP_FACTOR == 4
\* 0.025 s
MAX_PARTICLE_MOTION_TIME_STEP == 25
\* 50.0
MAX_TEMPERATURE == 5000000
\* 0.00001
MIN_TEMPERATURE == 1
\* 0.07 per second
TEMPERATURE_CHANGE_RATE == 7000
\* 0.15
TEMPERATURE_CLOSENESS_RANGE == 15000
\* 0.25 s
MOLECULE_INJECTION_HOLDOFF_TIME == 250
MAX_MOLECULES_QUEUED_FOR_INJECTION == 3
\* 12 s
PRESSURE_CALC_TIME_WINDOW == 12000
EXPLOSION_PRESSURE == 41
\* 1 s
EXPLOSION_TIME == 1000
\* size of the averageTemperatureDifference moving average
MOVING_AVERAGE_SIZE == 10

(***************************************************************************)
(* Constants of SOMConstants, which is not among the source files: the     *)
(* three phase temperatures (0.15, 0.34, 1.0).                             *)
(***************************************************************************)
SOLID_TEMPERATURE == 15000
LIQUID_TEMPERATURE == 34000
GAS_TEMPERATURE == 100000

\* postChangeModelSteps of the liquid phase in a phase state changer
LIQUID_SETTLE_STEPS == 200

INITIAL_TEMPERATURE == SOLID_TEMPERATURE
APPROACHING_ABSOLUTE_ZERO_TEMPERATURE == (SOLID_TEMPERATURE * 85) \div 100

(***************************************************************************)
(* Bounds of the model.  MAX_NUM_ATOMS stands for SOMConstants'            *)
(* MAX_NUM_ATOMS and the three initial counts for the number of molecules  *)
(* initializeMonatomic/Diatomic/Triatomic create; both depend on constants *)
(* that are not among the source files and are scaled down here, the       *)
(* initial counts staying below the capacity as in the program.            *)
(***************************************************************************)
MAX_NUM_ATOMS == 6
InitialMonatomicMolecules == 2
InitialDiatomicMolecules == 1
InitialTriatomicMolecules == 1

Min(a, b) == IF a <= b THEN a ELSE b
Max(a, b) == IF a >= b THEN a ELSE b
Abs(a) == IF a >= 0 THEN a ELSE -a
\* Utils.clamp
Clamp(v, lo, hi) == Max(lo, Min(v, hi))

SubstanceType == {"NEON", "ARGON", "ADJUSTABLE_ATOM", "DIATOMIC_OXYGEN", "WATER"}
DEFAULT_SUBSTANCE == "NEON"
PhaseStateEnum == {"SOLID", "LIQUID", "GAS"}

\* atomsPerMolecule of the data set initializeParticles builds for a substance
AtomsPerMolecule(s) ==
  CASE s = "DIATOMIC_OXYGEN" -> 2
    [] s = "WATER" -> 3
    [] OTHER -> 1

\* number of molecules initializeParticles creates for a substance
InitialMolecules(s) ==
  CASE s = "DIATOMIC_OXYGEN" -> InitialDiatomicMolecules
    [] s = "WATER" -> InitialTriatomicMolecules
    [] OTHER -> InitialMonatomicMolecules

\* minModelTemperature set by handleSubstanceChanged:
\* 0.5 * triple point in model units / triple point in Kelvin.  The triple
\* points are SOMConstants values (0.26 in model units; 23, 75, 54, 273 K);
\* what the model relies on is MIN_TEMPERATURE < minModelTemperature <
\* SOLID_TEMPERATURE / 5.
MinModelTemperature(s) ==
  CASE s = "NEON" -> 565
    [] s = "ARGON" -> 173
    [] s = "ADJUSTABLE_ATOM" -> 173
    [] s = "DIATOMIC_OXYGEN" -> 241
    [] s = "WATER" -> 48

PhaseTemperature(phase) ==
  CASE phase = "SOLID" -> SOLID_TEMPERATURE
    [] phase = "LIQUID" -> LIQUID_TEMPERATURE
    [] phase = "GAS" -> GAS_TEMPERATURE

(***************************************************************************)
(* MoleculeForceAndMotionDataSet.  The class is not among the source files *)
(* it is modelled from its description: parallel arrays with one entry per *)
(* molecule, addMolecule appends to all of them, removeMolecule compacts   *)
(* them.  A molecule's centre of mass is kept as the one fact returnLid    *)
(* and isNormalizedPositionInContainer ask about: inBox = it lies within   *)
(* the outline of the unexploded container.                                *)
(***************************************************************************)
MoleculeForceAndMotionDataSet(atomsPerMolecule) ==
  [ atomsPerMolecule |-> atomsPerMolecule,
    numberOfAtoms |-> 0,
    numberOfMolecules |-> 0,
    insideContainer |-> << >>,
    inBox |-> << >> ]

getNumberOfRemainingSlots(d) ==
  (MAX_NUM_ATOMS \div d.atomsPerMolecule) - d.numberOfMolecules

addMolecule(d, insideContainer) ==
  [ d EXCEPT !.numberOfAtoms = @ + d.atomsPerMolecule,
             !.numberOfMolecules = @ + 1,
             !.insideContainer = Append(@, insideContainer),
             !.inBox = Append(@, TRUE) ]

RemoveAt(seq, i) ==
  [ j \in 1..(Len(seq) - 1) |-> IF j < i THEN seq[j] ELSE seq[j + 1] ]

removeMolecule(d, i) ==
  [ d EXCEPT !.numberOfAtoms = @ - d.atomsPerMolecule,
             !.numberOfMolecules = @ - 1,
             !.insideContainer = RemoveAt(@, i),
             !.inBox = RemoveAt(@, i) ]

(***************************************************************************)
(* TimeSpanDataQueue, also not among the source files: a queue of          *)
(* (value, deltaTime) entries with a running total; add appends an entry   *)
(* and then drops the oldest entries while the time spanned exceeds the    *)
(* window.  An entry is therefore in the queue exactly while the time      *)
(* spanned from it to the newest entry, its span, is within the window.    *)
(* Entries of value 0 add nothing to the total and are not stored.  The    *)
(* queue's capacity (792 entries) is not reached by time steps of 16 ms or *)
(* more, which are the only ones used here.                                *)
(***************************************************************************)
RECURSIVE SumValues(_)
SumValues(q) == IF q = << >> THEN 0 ELSE Head(q).value + SumValues(Tail(q))

QueueTotal(q) == SumValues(q)

QueueAdd(q, value, deltaTime) ==
  LET aged == [ i \in 1..Len(q) |->
                  [ value |-> q[i].value, span |-> q[i].span + deltaTime ] ]
      kept == SelectSeq(aged, LAMBDA e : e.span <= PRESSURE_CALC_TIME_WINDOW)
  IN  IF value = 0 THEN kept
      ELSE Append(kept, [ value |-> value, span |-> deltaTime ])

QueueClear == << >>

(***************************************************************************)
(* MovingAverage                                                           *)
(***************************************************************************)
\* reset()
MovingAverageResetOf(a) ==
  [ a EXCEPT !.array = [ i \in 0..(a.size - 1) |-> a.initialValue ],
             !.total = a.initialValue * a.size,
             !.average = (a.initialValue * a.size) \div a.size,
             !.currentIndex = 0 ]

\* new MovingAverage( size, { initialValue: initialValue } )
MovingAverage(size, initialValue) ==
  MovingAverageResetOf([ size |-> size,
                         initialValue |-> initialValue,
                         array |-> [ i \in 0..(size - 1) |-> 0 ],
                         total |-> 0,
                         average |-> 0,
                         currentIndex |-> 0 ])

\* new MovingAverage( size )
MovingAverageReset(size) == MovingAverage(size, 0)

\* addValue that forgets to take the replaced value out of the total
MovingAverageAddValueOnTop(a, newValue) ==
  [ a EXCEPT !.array[a.currentIndex] = newValue,
             !.currentIndex = (a.currentIndex + 1) % a.size,
             !.total = a.total + newValue,
             !.average = (a.total + newValue) \div a.size ]

MovingAverageAddValue(a, newValue) ==
  LET replacedValue == a.array[a.currentIndex]
      total == (a.total - replacedValue) + newValue
  IN  [ a EXCEPT !.array[a.currentIndex] = newValue,
                 !.currentIndex = (a.currentIndex + 1) % a.size,
                 !.total = total,
                 !.average = total \div a.size ]

(***************************************************************************)
(* The state.  model is the MultipleParticleModel with the objects it      *)
(* owns; hist is history kept for the properties: it records what the last *)
(* operation did and the sums the properties speak about, and no operation *)
(* of the program reads it.                                                *)
(***************************************************************************)
VARIABLES model, hist

vars == << model, hist >>

\* AbstractVerletAlgorithm's constructor
AbstractVerletAlgorithm ==
  [ pressure |-> 0,
    calculatedTemperature |-> 0,
    lidChangedParticleVelocity |-> FALSE,
    pressureAccumulatorQueue |-> QueueClear,
    timeAboveExplosionPressure |-> 0 ]

\* the thermostats' constructors
Thermostat == [ targetTemperature |-> INITIAL_TEMPERATURE ]

\* what an operation starts from: the program state and the history
World == [ m |-> model, h |-> hist ]

\* history of one operation, cleared when the next one starts
NoStep ==
  [ dt |-> 0, injections |-> 0, refused |-> FALSE, lidHit |-> FALSE,
    isoCalls |-> 0, andersenCalls |-> 0, setTemperatureCalls |-> 0,
    thermostatSeen |-> FALSE, calculated |-> 0, setPoint |-> 0, heating |-> 0,
    engineSteps |-> 0, exploded |-> FALSE, moleculesBefore |-> 0,
    heightBefore |-> 0, outsideBefore |-> 0, particlesBefore |-> 0,
    sampleAdded |-> FALSE ]

\* the number of molecules whose centre is outside the outline of the
\* unexploded container
NumberOutside(d) == Cardinality({ i \in 1..d.numberOfMolecules : ~d.inBox[i] })

Begin(w, op) ==
  [ w EXCEPT !.h.op = op,
             !.h.step = [ NoStep EXCEPT
                            !.moleculesBefore = w.m.moleculeDataSet.numberOfMolecules,
                            !.heightBefore = w.m.particleContainerHeight,
                            !.outsideBefore = NumberOutside(w.m.moleculeDataSet),
                            !.particlesBefore = w.m.particles ] ]

(***************************************************************************)
(* MultipleParticleModel: the operations other operations call.            *)
(***************************************************************************)
setTemperature(w, newTemperature) ==
  LET setPoint == IF newTemperature > MAX_TEMPERATURE THEN MAX_TEMPERATURE
                  ELSE IF newTemperature < MIN_TEMPERATURE THEN MIN_TEMPERATURE
                  ELSE newTemperature
  IN  [ w EXCEPT !.m.temperatureSetPoint = setPoint,
                 !.m.isoKineticThermostat.targetTemperature = newTemperature,
                 !.m.andersenThermostat.targetTemperature = newTemperature,
                 !.h.step.setTemperatureCalls = @ + 1 ]

\* normalizedContainerHeight is kept multiplied by particleDiameter
resetContainerSize(w) ==
  [ w EXCEPT !.m.particleContainerHeight = PARTICLE_CONTAINER_INITIAL_HEIGHT,
             !.m.targetContainerHeight = PARTICLE_CONTAINER_INITIAL_HEIGHT,
             !.m.normalizedContainerHeight = PARTICLE_CONTAINER_INITIAL_HEIGHT ]

\* setContainerExploded without the reset of the container's size
setContainerExplodedOnly(w, isExploded) ==
  IF w.m.isExploded # isExploded
  THEN [ w EXCEPT !.m.isExploded = isExploded ]
  ELSE w

setContainerExploded(w, isExploded) ==
  IF w.m.isExploded # isExploded
  THEN LET w1 == [ w EXCEPT !.m.isExploded = isExploded ]
       IN  IF ~isExploded THEN resetContainerSize(w1) ELSE w1
  ELSE w

\* the assertion at the top of syncParticlePositions; the positions it
\* copies are not part of the state
syncParticlePositions(w) ==
  IF w.m.moleculeDataSet.numberOfAtoms = w.m.particles THEN w
  ELSE [ w EXCEPT !.h.syncAssertionFailed = TRUE ]

\* MultipleParticleModel.updatePressure: pressureProperty, in atmospheres
getPressureInAtmospheres(w) == 5 * w.m.verlet.pressure

updatePressureProperty(w) ==
  [ w EXCEPT !.m.pressure = getPressureInAtmospheres(w) ]

(***************************************************************************)
(* AbstractVerletAlgorithm                                                 *)
(***************************************************************************)
\* the window in seconds, the unit of the pressure
PressureOf(total) == Max(total \div (PRESSURE_CALC_TIME_WINDOW \div 1000), 0)

\* ExplosionDue with twice the time
ExplosionDueLate(timeAboveExplosionPressure) ==
  timeAboveExplosionPressure > 2 * EXPLOSION_TIME

\* line 281: the pressure has been above the threshold for long enough
ExplosionDue(timeAboveExplosionPressure) ==
  timeAboveExplosionPressure > EXPLOSION_TIME

\* History: runAbove is the time summed over the current run of consecutive
\* calls whose computed pressure was above EXPLOSION_PRESSURE; a call on an
\* exploded container computes no pressure and ends the run.  explosionRun
\* is runAbove at the latest call that exploded the container, and
\* missedExplosion records a run longer than EXPLOSION_TIME that left the
\* container unexploded.
updatePressure(w, pressureThisStep, dt) ==
  IF w.m.isExploded
  THEN [ w EXCEPT !.m.verlet.pressureAccumulatorQueue = QueueClear,
                  !.m.verlet.pressure = 0,
                  !.h.runAbove = 0 ]
  ELSE
    LET p == IF pressureThisStep > 0
                /\ w.m.temperatureSetPoint <= w.m.minModelTemperature
             THEN 0 ELSE pressureThisStep
        queue == QueueAdd(w.m.verlet.pressureAccumulatorQueue, p, dt)
        newPressure == PressureOf(QueueTotal(queue))
        w1 == [ w EXCEPT !.m.verlet.pressureAccumulatorQueue = queue ]
    IN  IF newPressure > EXPLOSION_PRESSURE
        THEN LET timeAbove == w.m.verlet.timeAboveExplosionPressure + dt
                 run == w.h.runAbove + dt
                 w2 == [ w1 EXCEPT !.m.verlet.timeAboveExplosionPressure = timeAbove,
                                   !.h.runAbove = run ]
             IN  IF ExplosionDue(timeAbove)
                 THEN LET w3 == setContainerExploded(w2, TRUE)
                      IN  [ w3 EXCEPT !.m.verlet.pressure = 0,
                                      !.h.explosionRun = run,
                                      !.h.step.exploded = TRUE ]
                 ELSE [ w2 EXCEPT !.m.verlet.pressure = newPressure,
                                  !.h.missedExplosion =
                                     @ \/ run > EXPLOSION_TIME ]
        ELSE [ w1 EXCEPT !.m.verlet.pressure = newPressure,
                         !.m.verlet.timeAboveExplosionPressure = 0,
                         !.h.runAbove = 0 ]

(***************************************************************************)
(* What happens to the molecules in one call of updateMoleculePositions is *)
(* an input, move = [kind, i]:                                             *)
(*   "none"  no molecule reaches the lid or crosses the outline;           *)
(*   "top"   molecule i, inside the container, reaches the lid (yPos >=    *)
(*           maxY) of the unexploded container;                            *)
(*   "exit"  molecule i, inside the container, passes the place of the lid *)
(*           of the exploded container and leaves the outline;             *)
(*   "back"  molecule i, outside the outline, falls back into it.          *)
(* pressure is the accumulatedPressure of the call.                        *)
(***************************************************************************)
NoMove == [ kind |-> "none", i |-> 0 ]

MoveEnabled(m, move) ==
  \/ move.kind = "none"
  \/ /\ move.i \in 1..m.moleculeDataSet.numberOfMolecules
     /\ \/ move.kind = "top" /\ m.moleculeDataSet.insideContainer[move.i]
                             /\ ~m.isExploded
        \/ move.kind = "exit" /\ m.moleculeDataSet.insideContainer[move.i]
                              /\ m.isExploded
        \/ move.kind = "back" /\ ~m.moleculeDataSet.inBox[move.i]

updateMoleculePositions(w, timeStep, pressure, move) ==
  LET d == w.m.moleculeDataSet
      \* lines 117-121: a molecule that had left and is back in the outline
      reentered == [ d EXCEPT !.inBox[move.i] = TRUE,
                              !.insideContainer[move.i] = TRUE ]
      \* lines 173-176: through the top of the exploded container
      left == [ d EXCEPT !.inBox[move.i] = FALSE,
                         !.insideContainer[move.i] = FALSE ]
      w1 == CASE move.kind = "back" -> [ w EXCEPT !.m.moleculeDataSet = reentered ]
              [] move.kind = "exit" /\ w.m.isExploded ->
                   [ w EXCEPT !.m.moleculeDataSet = left ]
              [] move.kind = "top" /\ ~w.m.isExploded
                 /\ w.m.normalizedLidVelocityY # 0 ->
                   [ w EXCEPT !.m.verlet.lidChangedParticleVelocity = TRUE,
                              !.h.step.lidHit = TRUE ]
              [] OTHER -> w
  IN  updatePressure(w1, pressure, timeStep)

\* updateVelocitiesAndRotationRates leaves the kinetic temperature of the
\* molecules in calculatedTemperature; it is an input of the call
updateForcesAndMotion(w, timeStep, pressure, move, calculatedTemperature) ==
  LET w1 == updateMoleculePositions(w, timeStep, pressure, move)
  IN  [ w1 EXCEPT !.m.verlet.calculatedTemperature = calculatedTemperature ]

(***************************************************************************)
(* The engine loop of stepInternal (lines 973-975).  hits gives the wall   *)
(* pressure of the first and of the last call of the loop, the calls in    *)
(* between meet no wall; move happens in the first call.                   *)
(***************************************************************************)
PressureAt(hits, i, n) ==
  IF i = 1 THEN hits.first ELSE IF i = n THEN hits.last ELSE 0

\* calls first..last of the n calls of the loop, in order; the range is
\* halved so that the evaluation does not nest as deep as the loop is long
RECURSIVE engineCalls(_, _, _, _, _, _, _, _)
engineCalls(w, first, last, n, timeStep, hits, move, calculatedTemperature) ==
  IF first > last THEN w
  ELSE IF first = last
  THEN updateForcesAndMotion(w, timeStep, PressureAt(hits, first, n),
                             IF first = 1 THEN move ELSE NoMove,
                             calculatedTemperature)
  ELSE LET middle == (first + last) \div 2
           half == engineCalls(w, first, middle, n, timeStep, hits, move,
                               calculatedTemperature)
       IN  \* the test is always true: it has the first half evaluated
           \* before the second half starts
           IF half.m.isExploded \in BOOLEAN
           THEN engineCalls(half, middle + 1, last, n, timeStep, hits, move,
                            calculatedTemperature)
           ELSE half

engineLoop(w, n, timeStep, hits, move, calculatedTemperature) ==
  engineCalls(w, 1, n, n, timeStep, hits, move, calculatedTemperature)

NoHits == [ first |-> 0, last |-> 0 ]

(***************************************************************************)
(* The phase state changers.  Those of the monatomic and the triatomic     *)
(* case are not among the source files and DiatomicPhaseStateChanger is of *)
(* an earlier revision (it steps the model through a method that takes no  *)
(* time step), so setPhase is modelled from its contract: it sets the      *)
(* model's temperature to the constant of the phase, places every molecule *)
(* inside the container and runs the integrator for the settling steps of  *)
(* the phase, during which no molecule meets a wall.                       *)
(***************************************************************************)
SettleSteps(phase) == IF phase = "LIQUID" THEN LIQUID_SETTLE_STEPS ELSE 0

phaseStateChangerSetPhase(w, phase) ==
  LET w1 == setTemperature(w, PhaseTemperature(phase))
      d == w1.m.moleculeDataSet
      placed == [ d EXCEPT !.insideContainer = [ i \in 1..Len(@) |-> TRUE ],
                           !.inBox = [ i \in 1..Len(@) |-> TRUE ] ]
      w2 == [ w1 EXCEPT !.m.moleculeDataSet = placed ]
  IN  engineLoop(w2, SettleSteps(phase), MAX_PARTICLE_MOTION_TIME_STEP,
                 NoHits, NoMove, w2.m.temperatureSetPoint)

\* MultipleParticleModel.setPhase
setPhase(w, phase) == syncParticlePositions(phaseStateChangerSetPhase(w, phase))

\* the loops of initializeMonatomic, initializeDiatomic, initializeTriatomic
RECURSIVE addInitialMolecules(_, _)
addInitialMolecules(w, n) ==
  IF n = 0 THEN w
  ELSE addInitialMolecules(
         [ w EXCEPT !.m.moleculeDataSet = addMolecule(@, TRUE),
                    !.m.particles = @ + w.m.moleculeDataSet.atomsPerMolecule ],
         n - 1)

\* initializeParticles with the initializer of the substance: a new data
\* set, integrator and thermostats, the molecules, the phase
initializeParticles(w, phase) ==
  LET s == w.m.substance
      w1 == [ w EXCEPT
                !.m.moleculeDataSet = MoleculeForceAndMotionDataSet(AtomsPerMolecule(s)),
                !.m.verlet = AbstractVerletAlgorithm,
                !.m.isoKineticThermostat = Thermostat,
                !.m.andersenThermostat = Thermostat,
                !.m.thermostatRunPreviousStep = "none",
                !.h.runAbove = 0 ]
      w2 == addInitialMolecules(w1, InitialMolecules(s))
  IN  updatePressureProperty(setPhase(w2, phase))

\* moleculeDataSet = null is kept as an empty data set; nothing reads it
\* before initializeParticles replaces it
removeAllParticles(w) ==
  [ w EXCEPT !.m.particles = 0,
             !.m.moleculeDataSet = MoleculeForceAndMotionDataSet(1) ]

initializeModelParameters(w) ==
  [ w EXCEPT !.m.heatingCoolingAmount = 0,
             !.m.temperatureSetPoint = INITIAL_TEMPERATURE,
             !.m.isExploded = FALSE ]

mapTemperatureToPhase(w) ==
  IF w.m.temperatureSetPoint
       < SOLID_TEMPERATURE + ((LIQUID_TEMPERATURE - SOLID_TEMPERATURE) \div 2)
  THEN "SOLID"
  ELSE IF w.m.temperatureSetPoint
            < LIQUID_TEMPERATURE + ((GAS_TEMPERATURE - LIQUID_TEMPERATURE) \div 2)
       THEN "LIQUID"
       ELSE "GAS"

\* the listener of substanceProperty; w.m.substance is the new substance
handleSubstanceChanged(w) ==
  LET phase == mapTemperatureToPhase(w)
      w1 == initializeModelParameters(removeAllParticles(w))
      w2 == [ w1 EXCEPT !.m.minModelTemperature = MinModelTemperature(w.m.substance) ]
      w3 == initializeParticles(resetContainerSize(w2), phase)
  IN  [ w3 EXCEPT !.m.averageTemperatureDifference =
                     MovingAverageReset(MOVING_AVERAGE_SIZE) ]

(***************************************************************************)
(* Injection.                                                              *)
(***************************************************************************)
\* injectionPointY * 1.05, multiplied by particleDiameter like
\* normalizedContainerHeight
InjectionHeightLimit == (PARTICLE_CONTAINER_INITIAL_HEIGHT * 25 * 105) \div 10000

\* InjectionRefused without the test of the remaining slots
InjectionRefusedIgnoringSlots(m) ==
  \/ ~m.isPlaying
  \/ m.normalizedContainerHeight < InjectionHeightLimit
  \/ m.isExploded

InjectionRefused(m) ==
  \/ ~m.isPlaying
  \/ getNumberOfRemainingSlots(m.moleculeDataSet) <= 0
  \/ m.normalizedContainerHeight < InjectionHeightLimit
  \/ m.isExploded

injectMoleculeInternal(w) ==
  IF InjectionRefused(w.m)
  THEN [ w EXCEPT !.m.numMoleculesAwaitingInjection = 0,
                  !.h.step.refused = TRUE ]
  ELSE LET w1 == [ w EXCEPT
                     !.m.moleculeDataSet = addMolecule(@, TRUE),
                     !.m.particles = @ + w.m.moleculeDataSet.atomsPerMolecule ]
       IN  [ syncParticlePositions(w1) EXCEPT !.m.particleInjectedThisStep = TRUE ]

(***************************************************************************)
(* runThermostat                                                           *)
(***************************************************************************)
temperatureAdjustmentNeeded(heatingCoolingAmount, calculatedTemperature, temperatureSetPoint) ==
  \/ heatingCoolingAmount > 0 /\ calculatedTemperature < temperatureSetPoint
  \/ heatingCoolingAmount < 0 /\ calculatedTemperature > temperatureSetPoint
  \/ Abs(calculatedTemperature - temperatureSetPoint) > TEMPERATURE_CLOSENESS_RANGE

\* ThermostatBranch without the branch of the lid
ThermostatBranchIgnoringLid(injected, lidChanged, adjustmentNeeded, temperatureSetPoint) ==
  IF injected THEN "injected"
  ELSE IF \/ adjustmentNeeded
          \/ temperatureSetPoint > LIQUID_TEMPERATURE
          \/ temperatureSetPoint < SOLID_TEMPERATURE \div 5
       THEN "isokinetic"
  ELSE "andersen"

\* ThermostatBranch with the liquid temperature outside the band
ThermostatBranchNarrowBand(injected, lidChanged, adjustmentNeeded, temperatureSetPoint) ==
  IF injected THEN "injected"
  ELSE IF lidChanged THEN "lid"
  ELSE IF \/ adjustmentNeeded
          \/ temperatureSetPoint >= LIQUID_TEMPERATURE
          \/ temperatureSetPoint < SOLID_TEMPERATURE \div 5
       THEN "isokinetic"
  ELSE "andersen"

\* the branch the if-chain of runThermostat takes (lines 1074-1128)
ThermostatBranch(injected, lidChanged, adjustmentNeeded, temperatureSetPoint) ==
  IF injected THEN "injected"
  ELSE IF lidChanged THEN "lid"
  ELSE IF \/ adjustmentNeeded
          \/ temperatureSetPoint > LIQUID_TEMPERATURE
          \/ temperatureSetPoint < SOLID_TEMPERATURE \div 5
       THEN "isokinetic"
  ELSE IF ~adjustmentNeeded THEN "andersen"
  ELSE "none"

\* injectedParticleTemperature, (2/3) of the kinetic energy of the molecule
\* added last, is an input
runThermostat(w, injectedParticleTemperature) ==
  IF w.m.isExploded THEN w
  ELSE
    LET calculatedTemperature == w.m.verlet.calculatedTemperature
        temperatureSetPoint == w.m.temperatureSetPoint
        adjustmentNeeded ==
          temperatureAdjustmentNeeded(w.m.heatingCoolingAmount,
                                      calculatedTemperature, temperatureSetPoint)
        branch == ThermostatBranch(w.m.particleInjectedThisStep,
                                   w.m.verlet.lidChangedParticleVelocity,
                                   adjustmentNeeded, temperatureSetPoint)
        numParticles == w.m.moleculeDataSet.numberOfMolecules
        w0 == [ w EXCEPT !.h.step.thermostatSeen = TRUE,
                         !.h.step.calculated = calculatedTemperature,
                         !.h.step.setPoint = temperatureSetPoint,
                         !.h.step.heating = w.m.heatingCoolingAmount ]
        w1 ==
          CASE branch = "injected" ->
                 setTemperature(w0,
                   (temperatureSetPoint * (numParticles - 1)
                      + injectedParticleTemperature) \div numParticles)
            [] branch = "lid" ->
                 LET w2 == IF \/ w0.m.heightChangeThisStep > 0
                                 /\ calculatedTemperature < temperatureSetPoint
                              \/ w0.m.heightChangeThisStep < 0
                                 /\ calculatedTemperature > temperatureSetPoint
                           THEN setTemperature(w0,
                                  calculatedTemperature
                                    + w0.m.averageTemperatureDifference.average)
                           ELSE w0
                 IN  [ w2 EXCEPT !.m.verlet.lidChangedParticleVelocity = FALSE ]
            [] branch = "isokinetic" ->
                 [ w0 EXCEPT !.h.step.isoCalls = @ + 1 ]
            [] branch = "andersen" ->
                 [ w0 EXCEPT !.h.step.andersenCalls = @ + 1 ]
            [] OTHER -> w0
        w3 == [ w1 EXCEPT !.m.thermostatRunPreviousStep =
                             IF branch \in { "isokinetic", "andersen" }
                             THEN branch ELSE "none" ]
    IN  \* line 1137 reads lidChangedParticleVelocity of the model, which
        \* has no such field: the third conjunct is always true
        IF ~adjustmentNeeded /\ ~w3.m.particleInjectedThisStep
        THEN [ w3 EXCEPT !.m.averageTemperatureDifference =
                            MovingAverageAddValue(@,
                              temperatureSetPoint - calculatedTemperature),
                         !.h.step.sampleAdded = TRUE ]
        ELSE w3

\* Travel of a lid that is stuck
TravelNowhere(rate, dt) == 0

\* Travel with the time taken in milliseconds for seconds
TravelOfMilliseconds(rate, dt) == rate * dt

(***************************************************************************)
(* stepInternal                                                            *)
(***************************************************************************)
\* rate * dt, with the rate per second and dt in milliseconds
Travel(rate, dt) == (rate * dt) \div 1000

\* lines 891-934: the container's height
adjustContainerHeight(w, dt) ==
  IF ~w.m.isExploded
  THEN IF w.m.targetContainerHeight # w.m.particleContainerHeight
       THEN LET difference == w.m.targetContainerHeight - w.m.particleContainerHeight
                change == IF difference > 0
                          THEN Min(difference, Travel(MAX_CONTAINER_EXPAND_RATE, dt))
                          ELSE Max(difference, -Travel(MAX_CONTAINER_SHRINK_RATE, dt))
                height == IF difference > 0
                          THEN Min(w.m.particleContainerHeight + change,
                                   PARTICLE_CONTAINER_INITIAL_HEIGHT)
                          ELSE Max(w.m.particleContainerHeight + change,
                                   MIN_ALLOWABLE_CONTAINER_HEIGHT)
            IN  [ w EXCEPT !.m.heightChangeThisStep = change,
                           !.m.particleContainerHeight = height,
                           !.m.normalizedContainerHeight = height,
                           \* the sign of heightChangeThisStep / dt
                           !.m.normalizedLidVelocityY =
                              IF change > 0 THEN 1 ELSE IF change < 0 THEN -1 ELSE 0 ]
       ELSE [ w EXCEPT !.m.heightChangeThisStep = 0,
                       !.m.normalizedLidVelocityY = 0 ]
  ELSE LET w1 == [ w EXCEPT !.m.heightChangeThisStep =
                               Travel(POST_EXPLOSION_CONTAINER_EXPANSION_RATE, dt) ]
       IN  IF w.m.particleContainerHeight < PARTICLE_CONTAINER_INITIAL_HEIGHT * 3
           THEN [ w1 EXCEPT !.m.particleContainerHeight =
                               @ + Travel(POST_EXPLOSION_CONTAINER_EXPANSION_RATE, dt) ]
           ELSE w1

\* lines 939-958: the number and the size of the engine's steps, and the
\* residual time
engineSchedule(residualTime, dt) ==
  LET particleMotionAdvancementTime == dt * PARTICLE_SPEED_UP_FACTOR
      capped == particleMotionAdvancementTime > MAX_PARTICLE_MOTION_TIME_STEP
      particleMotionTimeStep == IF capped THEN MAX_PARTICLE_MOTION_TIME_STEP
                                ELSE particleMotionAdvancementTime
      steps == IF capped
               THEN particleMotionAdvancementTime \div MAX_PARTICLE_MOTION_TIME_STEP
               ELSE 1
      residual == IF capped
                  THEN particleMotionAdvancementTime - (steps * particleMotionTimeStep)
                  ELSE residualTime
  IN  IF residual > particleMotionTimeStep
      THEN [ numParticleEngineSteps |-> steps + 1,
             particleMotionTimeStep |-> particleMotionTimeStep,
             residualTime |-> residual - particleMotionTimeStep ]
      ELSE [ numParticleEngineSteps |-> steps,
             particleMotionTimeStep |-> particleMotionTimeStep,
             residualTime |-> residual ]

\* lines 960-970.  History: sinceInjection is the time of the steps since
\* the last step that injected a molecule, counted up to the holdoff time,
\* and gapAtInjection is its value when the latest molecule was injected.
\* injectIfReady with a holdoff timer that is never started
injectIfReadyWithoutHoldoff(w, dt) ==
  LET before == w.m.moleculeDataSet.numberOfMolecules
      w1 == IF w.m.numMoleculesAwaitingInjection > 0
               /\ w.m.moleculeInjectionHoldoffTimer = 0
            THEN LET w2 == injectMoleculeInternal(w)
                 IN  [ w2 EXCEPT !.m.numMoleculesAwaitingInjection = @ - 1 ]
            ELSE w
      injected == w1.m.moleculeDataSet.numberOfMolecules - before
  IN  IF injected > 0
      THEN [ w1 EXCEPT !.h.step.injections = injected,
                       !.h.gapAtInjection = w.h.sinceInjection,
                       !.h.sinceInjection = 0 ]
      ELSE [ w1 EXCEPT !.h.sinceInjection =
                          Min(@ + dt, MOLECULE_INJECTION_HOLDOFF_TIME) ]

injectIfReady(w, dt) ==
  LET before == w.m.moleculeDataSet.numberOfMolecules
      w1 == IF w.m.numMoleculesAwaitingInjection > 0
               /\ w.m.moleculeInjectionHoldoffTimer = 0
            THEN LET w2 == injectMoleculeInternal(w)
                 IN  [ w2 EXCEPT !.m.numMoleculesAwaitingInjection = @ - 1,
                                 !.m.moleculeInjectionHoldoffTimer =
                                    MOLECULE_INJECTION_HOLDOFF_TIME ]
            ELSE IF w.m.moleculeInjectionHoldoffTimer > 0
                 THEN [ w EXCEPT !.m.moleculeInjectionHoldoffTimer = Max(@ - dt, 0) ]
                 ELSE w
      injected == w1.m.moleculeDataSet.numberOfMolecules - before
  IN  IF injected > 0
      THEN [ w1 EXCEPT !.h.step.injections = injected,
                       !.h.gapAtInjection = w.h.sinceInjection,
                       !.h.sinceInjection = 0 ]
      ELSE [ w1 EXCEPT !.h.sinceInjection =
                          Min(@ + dt, MOLECULE_INJECTION_HOLDOFF_TIME) ]

\* lines 1001-1007: the change of the set point slows down by the factor
\* (currentTemperature / APPROACHING_ABSOLUTE_ZERO_TEMPERATURE) ^ 1.35, which
\* lies between the square of the ratio and the ratio; slow chooses the bound
SlowedChange(change, currentTemperature, slow) ==
  IF slow = "square"
  THEN (change * currentTemperature * currentTemperature)
         \div (APPROACHING_ABSOLUTE_ZERO_TEMPERATURE * APPROACHING_ABSOLUTE_ZERO_TEMPERATURE)
  ELSE (change * currentTemperature) \div APPROACHING_ABSOLUTE_ZERO_TEMPERATURE

\* getTemperatureInKelvin() === 0
TemperatureInKelvinIsZero(m) ==
  m.particles # 0 /\ m.temperatureSetPoint <= m.minModelTemperature

\* lines 989-1034: heating and cooling move the set point
adjustSetPoint(w, dt, slow) ==
  LET currentTemperature == w.m.temperatureSetPoint
      heating == w.m.heatingCoolingAmount
      change == heating * Travel(TEMPERATURE_CHANGE_RATE, dt)
      newTemperature ==
        IF currentTemperature < APPROACHING_ABSOLUTE_ZERO_TEMPERATURE /\ heating < 0
        THEN currentTemperature - SlowedChange(-change, currentTemperature, slow)
        ELSE Min(currentTemperature + change, MAX_TEMPERATURE)
      recorded == IF heating <= 0 /\ TemperatureInKelvinIsZero(w.m)
                     /\ newTemperature > MIN_TEMPERATURE
                  THEN MIN_TEMPERATURE ELSE newTemperature
  IN  IF heating # 0
      THEN [ w EXCEPT !.m.temperatureSetPoint = recorded,
                      !.m.isoKineticThermostat.targetTemperature = recorded,
                      !.m.andersenThermostat.targetTemperature = recorded ]
      ELSE w

\* stepInternal( dt ) with the inputs of the step: the wall pressure of the
\* engine's calls, what a molecule does, the kinetic temperature the engine
\* ends with (as a difference to the set point), the temperature of an
\* injected molecule, the bound taken for the slowed cooling
stepInternal(w, dt, hits, move, calculatedOffset, injectedParticleTemperature, slow) ==
  LET w0 == [ w EXCEPT !.m.particleInjectedThisStep = FALSE,
                       !.h.step.dt = dt ]
      w1 == adjustContainerHeight(w0, dt)
      pressureBeforeAlgorithm == w1.m.verlet.pressure
      schedule == engineSchedule(w1.m.residualTime, dt)
      w2 == [ w1 EXCEPT !.m.residualTime = schedule.residualTime ]
      w3 == injectIfReady(w2, dt)
      w4 == engineLoop(w3, schedule.numParticleEngineSteps,
                       schedule.particleMotionTimeStep, hits, move,
                       Max(w3.m.temperatureSetPoint + calculatedOffset, 0))
      w5 == runThermostat(syncParticlePositions(w4), injectedParticleTemperature)
      w6 == IF w5.m.verlet.pressure # pressureBeforeAlgorithm
            THEN updatePressureProperty(w5) ELSE w5
      w7 == adjustSetPoint(w6, dt, slow)
  IN  [ w7 EXCEPT
          !.h.clock = @ + dt,
          !.h.handedTime = @ + schedule.numParticleEngineSteps
                                 * schedule.particleMotionTimeStep,
          !.h.step.engineSteps = schedule.numParticleEngineSteps ]

(***************************************************************************)
(* returnLid and reset                                                     *)
(***************************************************************************)
\* the for loop of lines 1456-1466: the first molecule outside the outline,
\* numberOfMolecules + 1 when there is none (indices start at 1 here)
FirstOutsideParticleIndex(d) ==
  IF \E i \in 1..d.numberOfMolecules : ~d.inBox[i]
  THEN CHOOSE i \in 1..d.numberOfMolecules :
         /\ ~d.inBox[i]
         /\ \A j \in 1..(i - 1) : d.inBox[j]
  ELSE d.numberOfMolecules + 1

\* removeOutsideParticles that stops after the first molecule it removed
removeOutsideParticlesOnce(d, numParticlesOutsideContainer) ==
  LET first == FirstOutsideParticleIndex(d)
      found == first < d.numberOfMolecules + 1
  IN  [ dataSet |-> IF found THEN removeMolecule(d, first) ELSE d,
        numParticlesOutsideContainer |->
          IF found THEN numParticlesOutsideContainer + 1
          ELSE numParticlesOutsideContainer ]

\* the do-while loop of lines 1455-1472
RECURSIVE removeOutsideParticles(_, _)
removeOutsideParticles(d, numParticlesOutsideContainer) ==
  LET first == FirstOutsideParticleIndex(d)
      found == first < d.numberOfMolecules + 1
      d1 == IF found THEN removeMolecule(d, first) ELSE d
      count == IF found THEN numParticlesOutsideContainer + 1
               ELSE numParticlesOutsideContainer
  IN  IF first # d1.numberOfMolecules + 1
      THEN removeOutsideParticles(d1, count)
      ELSE [ dataSet |-> d1, numParticlesOutsideContainer |-> count ]

\* PopParticles popping one particle fewer
PopParticlesButOne(particles, n) == Max(particles - (n - 1), 0)

\* particles.pop(), n times
PopParticles(particles, n) == Max(particles - n, 0)

returnLid(w) ==
  IF ~w.m.isExploded THEN w
  ELSE
    LET removed == removeOutsideParticles(w.m.moleculeDataSet, 0)
        w1 == [ w EXCEPT
                  !.m.moleculeDataSet = removed.dataSet,
                  !.m.particles =
                     PopParticles(@, removed.numParticlesOutsideContainer
                                       * removed.dataSet.atomsPerMolecule) ]
        w2 == setContainerExploded(w1, FALSE)
    IN  IF removed.numParticlesOutsideContainer > 0
        THEN phaseStateChangerSetPhase(w2, "GAS")
        ELSE w2

reset(w) ==
  LET substanceAtStartOfReset == w.m.substance
      w1 == [ w EXCEPT !.m.particleContainerHeight = PARTICLE_CONTAINER_INITIAL_HEIGHT,
                       !.m.targetContainerHeight = PARTICLE_CONTAINER_INITIAL_HEIGHT,
                       !.m.isExploded = FALSE,
                       !.m.temperatureSetPoint = INITIAL_TEMPERATURE,
                       !.m.pressure = 0,
                       !.m.substance = DEFAULT_SUBSTANCE ]
      w2 == IF substanceAtStartOfReset # DEFAULT_SUBSTANCE
            THEN handleSubstanceChanged(w1) ELSE w1
      w3 == [ w2 EXCEPT !.m.isPlaying = TRUE,
                        !.m.heatingCoolingAmount = 0 ]
  IN  IF substanceAtStartOfReset = w3.m.substance
      THEN initializeParticles(resetContainerSize(removeAllParticles(w3)), "SOLID")
      ELSE w3

(***************************************************************************)
(* The state after construction: the fields of the constructor, then the   *)
(* listener of substanceProperty, which link() calls at once.              *)
(***************************************************************************)
Constructed ==
  [ substance |-> DEFAULT_SUBSTANCE,
    particleContainerHeight |-> PARTICLE_CONTAINER_INITIAL_HEIGHT,
    targetContainerHeight |-> PARTICLE_CONTAINER_INITIAL_HEIGHT,
    isExploded |-> FALSE,
    temperatureSetPoint |-> INITIAL_TEMPERATURE,
    pressure |-> 0,
    isPlaying |-> TRUE,
    heatingCoolingAmount |-> 0,
    particles |-> 0,
    moleculeDataSet |-> MoleculeForceAndMotionDataSet(1),
    normalizedContainerHeight |-> PARTICLE_CONTAINER_INITIAL_HEIGHT,
    normalizedLidVelocityY |-> 0,
    minModelTemperature |-> 0,
    residualTime |-> 0,
    numMoleculesAwaitingInjection |-> 0,
    moleculeInjectionHoldoffTimer |-> 0,
    heightChangeThisStep |-> 0,
    particleInjectedThisStep |-> FALSE,
    verlet |-> AbstractVerletAlgorithm,
    isoKineticThermostat |-> Thermostat,
    andersenThermostat |-> Thermostat,
    thermostatRunPreviousStep |-> "none",
    averageTemperatureDifference |-> MovingAverageReset(MOVING_AVERAGE_SIZE) ]

NoHistory ==
  [ op |-> "constructor",
    step |-> NoStep,
    clock |-> 0,
    handedTime |-> 0,
    runAbove |-> 0,
    explosionRun |-> 0,
    missedExplosion |-> FALSE,
    sinceInjection |-> MOLECULE_INJECTION_HOLDOFF_TIME,
    gapAtInjection |-> MOLECULE_INJECTION_HOLDOFF_TIME,
    syncAssertionFailed |-> FALSE ]

MultipleParticleModel == handleSubstanceChanged([ m |-> Constructed, h |-> NoHistory ])

Init ==
  /\ model = MultipleParticleModel.m
  /\ hist = MultipleParticleModel.h

\* the operation op leaves the world w
Becomes(w) ==
  /\ model' = w.m
  /\ hist' = w.h

(***************************************************************************)
(* The operations of the model as actions.                                 *)
(***************************************************************************)
StepInternal(dt, hits, move, calculatedOffset, injectedParticleTemperature, slow) ==
  /\ MoveEnabled(model, move)
  /\ Becomes(stepInternal(Begin(World, "stepInternal"), dt, hits, move,
                          calculatedOffset, injectedParticleTemperature, slow))

\* step( dt ): the frame of a playing simulation
Step(dt, hits, move, calculatedOffset, injectedParticleTemperature, slow) ==
  /\ model.isPlaying
  /\ StepInternal(dt, hits, move, calculatedOffset, injectedParticleTemperature, slow)

InjectMolecule ==
  Becomes([ Begin(World, "injectMolecule") EXCEPT
              !.m.numMoleculesAwaitingInjection =
                 Min(@ + 1, MAX_MOLECULES_QUEUED_FOR_INJECTION) ])

SetTargetParticleContainerHeight(desiredContainerHeight) ==
  Becomes([ Begin(World, "setTargetParticleContainerHeight") EXCEPT
              !.m.targetContainerHeight =
                 Clamp(desiredContainerHeight, MIN_ALLOWABLE_CONTAINER_HEIGHT,
                       PARTICLE_CONTAINER_INITIAL_HEIGHT) ])

SetTemperature(newTemperature) ==
  Becomes(setTemperature(Begin(World, "setTemperature"), newTemperature))

SetPhase(phase) ==
  Becomes(setPhase(Begin(World, "setPhase"), phase))

SetHeatingCoolingAmount(normalizedHeatingCoolingAmount) ==
  /\ normalizedHeatingCoolingAmount # model.heatingCoolingAmount
  /\ Becomes([ Begin(World, "setHeatingCoolingAmount") EXCEPT
                 !.m.heatingCoolingAmount = normalizedHeatingCoolingAmount ])

SetIsPlaying(isPlaying) ==
  /\ isPlaying # model.isPlaying
  /\ Becomes([ Begin(World, "setIsPlaying") EXCEPT !.m.isPlaying = isPlaying ])

\* substanceProperty.set( substance ): the listener runs when the value changes
SetSubstance(substance) ==
  /\ substance # model.substance
  /\ Becomes(handleSubstanceChanged(
               [ Begin(World, "setSubstance") EXCEPT !.m.substance = substance ]))

\* returnLid is called on an exploded container; on any other it asserts
ReturnLid ==
  /\ model.isExploded
  /\ Becomes(returnLid(Begin(World, "returnLid")))

Reset ==
  Becomes(reset(Begin(World, "reset")))

(***************************************************************************)
(* Pressure and explosion: frames of one second, in which the first and    *)
(* the last call of the engine meet a wall pressure, the lid returned and  *)
(* the model reset in between.                                             *)
(***************************************************************************)
MaxClockPressure == 5000
PressureFrames == { 1000 }
PressureHits == [ first : { 0, 300, 504 }, last : { 0, 300 } ]

StepUnderPressure ==
  \E dt \in PressureFrames, hits \in PressureHits :
    /\ hist.clock + dt <= MaxClockPressure
    /\ Step(dt, hits, NoMove, 0, 0, "ratio")

NextPressure == StepUnderPressure \/ ReturnLid \/ Reset

SpecPressure == Init /\ [][NextPressure]_vars

\* C3: the container is exploded only by a call of updatePressure that ends
\* a run of consecutive calls, each with a computed pressure above
\* EXPLOSION_PRESSURE, whose time steps sum to more than EXPLOSION_TIME; this
\* for every explosion, the one after the lid has been returned included.
ExplosionEndsSustainedRun ==
  model.isExploded => hist.explosionRun > EXPLOSION_TIME

\* C4: a run of consecutive calls of updatePressure on an unexploded
\* container, each with a computed pressure above EXPLOSION_PRESSURE, whose
\* time steps sum to more than EXPLOSION_TIME, explodes the container: no
\* such run leaves it unexploded, and the step in which it explodes ends
\* with isExploded true and the integrator's pressure 0.
SustainedPressureExplodes ==
  /\ ~hist.missedExplosion
  /\ hist.step.exploded => model.isExploded /\ model.verlet.pressure = 0

\* a step in which a run longer than EXPLOSION_TIME exploded the container
SustainedRunExploded ==
  /\ hist.op = "stepInternal"
  /\ hist.step.exploded
  /\ hist.explosionRun > EXPLOSION_TIME

(***************************************************************************)
(* Time: frames of 4, 12 and 100 ms, which the engine takes as one step of *)
(* 16 ms, as one step of 25 ms with 23 ms left, and as 16 steps of 25 ms.  *)
(***************************************************************************)
MaxClockTime == 160
TimeFrames == { 4, 12, 100 }

StepInTime ==
  \E dt \in TimeFrames :
    /\ hist.clock + dt <= MaxClockTime
    /\ Step(dt, NoHits, NoMove, 0, 0, "ratio")

NextTime == StepInTime

SpecTime == Init /\ [][NextTime]_vars

\* C10: after any sequence of calls of stepInternal, the time handed to the
\* engine (the time steps of all calls of updateForcesAndMotion) plus the
\* residual time still carried is the time requested, the sum of the dt
\* times PARTICLE_SPEED_UP_FACTOR.
SimulatedTimeConserved ==
  hist.handedTime + model.residualTime = PARTICLE_SPEED_UP_FACTOR * hist.clock

(***************************************************************************)
(* Injection: requests from the pump, frames of 125 and 250 ms of a        *)
(* playing or a paused simulation, another substance, a reset.             *)
(***************************************************************************)
MaxClockInject == 1000
InjectFrames == { 125, 250 }
\* (2/3) of the kinetic energy of a molecule injected at INJECTED_MOLECULE_SPEED
InjectedTemperatures == { 133333 }
InjectSubstances == { "NEON", "WATER" }

StepInjecting ==
  \E dt \in InjectFrames, t \in InjectedTemperatures :
    /\ hist.clock + dt <= MaxClockInject
    /\ Step(dt, NoHits, NoMove, 0, t, "ratio")

\* the step button of a paused simulation
StepPaused ==
  \E dt \in InjectFrames, t \in InjectedTemperatures :
    /\ ~model.isPlaying
    /\ hist.clock + dt <= MaxClockInject
    /\ StepInternal(dt, NoHits, NoMove, 0, t, "ratio")

Pause == SetIsPlaying(FALSE)
Play == SetIsPlaying(TRUE)
ChangeSubstance == \E substance \in InjectSubstances : SetSubstance(substance)

NextInject ==
  \/ InjectMolecule
  \/ StepInjecting
  \/ StepPaused
  \/ Pause
  \/ Play
  \/ ChangeSubstance
  \/ Reset

SpecInject == Init /\ [][NextInject]_vars

\* C8: the number of molecules never exceeds MAX_NUM_ATOMS / atomsPerMolecule,
\* and a step that takes a request for a molecule when no slot remains adds
\* no molecule and fails no assertion.
CapacityRespected ==
  /\ model.moleculeDataSet.numberOfMolecules * model.moleculeDataSet.atomsPerMolecule
       <= MAX_NUM_ATOMS
  /\ hist.step.refused =>
       /\ model.moleculeDataSet.numberOfMolecules = hist.step.moleculesBefore
       /\ ~hist.syncAssertionFailed

\* a step of the playing, unexploded model that refused a request because
\* the data set is full
RequestRefusedWhenFull ==
  /\ hist.op = "stepInternal"
  /\ hist.step.refused
  /\ model.isPlaying
  /\ ~model.isExploded
  /\ model.moleculeDataSet.numberOfMolecules * model.moleculeDataSet.atomsPerMolecule
       = MAX_NUM_ATOMS

\* C9: a call of stepInternal injects at most one molecule, and when a
\* molecule is injected the steps since the step that injected the one
\* before took at least MOLECULE_INJECTION_HOLDOFF_TIME together.
InjectionsHeldOff ==
  /\ hist.step.injections <= 1
  /\ hist.gapAtInjection >= MOLECULE_INJECTION_HOLDOFF_TIME

\* a molecule injected in the step after the holdoff of an earlier
\* injection ran out, with a request still queued
InjectedAfterHoldoff ==
  /\ hist.op = "stepInternal"
  /\ hist.step.injections = 1
  /\ hist.step.moleculesBefore > InitialMolecules(model.substance)
  /\ model.numMoleculesAwaitingInjection > 0

(***************************************************************************)
(* The container: the lid moved by its handle, frames of half a second     *)
(* with a wall pressure that explodes the container, a molecule leaving    *)
(* the exploded container and falling back, requests from the pump, the    *)
(* lid returned, a reset, another substance.                               *)
(***************************************************************************)
MaxClockContainer == 1500
ContainerFrames == { 500 }
ContainerHits == [ first : { 0, 504 }, last : { 0 } ]
ContainerMoves == { NoMove } \cup [ kind : { "exit", "back" }, i : { 1, 2 } ]
\* below the minimum and above the initial height
ContainerTargets == { 1000, 12000 }
ContainerSubstances == { "DIATOMIC_OXYGEN" }

MoveLid ==
  \E height \in ContainerTargets : SetTargetParticleContainerHeight(height)

StepContainer ==
  \E dt \in ContainerFrames, hits \in ContainerHits, move \in ContainerMoves,
     t \in InjectedTemperatures :
    /\ hist.clock + dt <= MaxClockContainer
    /\ Step(dt, hits, move, 0, t, "ratio")

SelectSubstance ==
  \E substance \in ContainerSubstances : SetSubstance(substance)

NextContainer ==
  \/ MoveLid
  \/ StepContainer
  \/ InjectMolecule
  \/ ReturnLid
  \/ Reset
  \/ SelectSubstance

SpecContainer == Init /\ [][NextContainer]_vars

\* C1: after construction and after every operation the data set has
\* numberOfAtoms = atomsPerMolecule * numberOfMolecules, the list of
\* particles has one entry for each atom, and the assertion of
\* syncParticlePositions has never failed.
DataSetConsistent ==
  /\ model.moleculeDataSet.numberOfAtoms
       = model.moleculeDataSet.atomsPerMolecule * model.moleculeDataSet.numberOfMolecules
  /\ Len(model.moleculeDataSet.insideContainer) = model.moleculeDataSet.numberOfMolecules
  /\ model.particles = model.moleculeDataSet.numberOfAtoms
  /\ ~hist.syncAssertionFailed

\* the lid has been returned and molecules of several atoms were removed
LidReturnedWithoutMolecules ==
  /\ hist.op = "returnLid"
  /\ model.moleculeDataSet.atomsPerMolecule > 1
  /\ model.moleculeDataSet.numberOfMolecules < hist.step.moleculesBefore

\* C2: while the container is not exploded its height lies between
\* MIN_ALLOWABLE_CONTAINER_HEIGHT and PARTICLE_CONTAINER_INITIAL_HEIGHT,
\* whatever was done before.
HeightWithinBounds ==
  ~model.isExploded =>
    /\ model.particleContainerHeight >= MIN_ALLOWABLE_CONTAINER_HEIGHT
    /\ model.particleContainerHeight <= PARTICLE_CONTAINER_INITIAL_HEIGHT

\* the lid returned to a container that had grown beyond its initial height
LidReturnedToGrownContainer ==
  /\ hist.op = "returnLid"
  /\ hist.step.heightBefore > PARTICLE_CONTAINER_INITIAL_HEIGHT
  /\ ~model.isExploded

MaxClockThermo == 800
ThermoFrames == { 400 }
CalculatedOffsets == { -10000, 0, 10000, 20000 }
ThermoTemperatures == { 0, SOLID_TEMPERATURE \div 5, LIQUID_TEMPERATURE, MAX_TEMPERATURE + 1000000 }
ThermoMoves == { NoMove, [ kind |-> "top", i |-> 1 ] }
ThermoTargets == { 5000 }

StepThermo ==
  \E dt \in ThermoFrames, move \in ThermoMoves, offset \in CalculatedOffsets :
    /\ hist.clock + dt <= MaxClockThermo
    /\ Step(dt, NoHits, move, offset, 133333, "ratio")

\* the controls are set before the first frame
BeforeFirstFrame == hist.clock = 0

HeatOrCool ==
  \E amount \in { -1, 0, 1 } : SetHeatingCoolingAmount(amount)

ChooseTemperature ==
  \E newTemperature \in ThermoTemperatures :
    /\ BeforeFirstFrame
    /\ SetTemperature(newTemperature)

ChoosePhase ==
  \E phase \in PhaseStateEnum :
    /\ BeforeFirstFrame
    /\ SetPhase(phase)

LowerLid ==
  \E height \in ThermoTargets :
    /\ BeforeFirstFrame
    /\ SetTargetParticleContainerHeight(height)

RequestMolecule ==
  /\ BeforeFirstFrame
  /\ model.numMoleculesAwaitingInjection = 0
  /\ InjectMolecule

NextThermo ==
  \/ StepThermo
  \/ HeatOrCool
  \/ ChooseTemperature
  \/ ChoosePhase
  \/ LowerLid
  \/ RequestMolecule

SpecThermo == Init /\ [][NextThermo]_vars

\* the number of calls of a thermostat's adjustTemperature in the latest step
ThermostatCalls == hist.step.isoCalls + hist.step.andersenCalls

NoAdjustmentNeeded ==
  /\ ~(hist.step.heating > 0 /\ hist.step.calculated < hist.step.setPoint)
  /\ ~(hist.step.heating < 0 /\ hist.step.calculated > hist.step.setPoint)
  /\ Abs(hist.step.calculated - hist.step.setPoint) <= TEMPERATURE_CLOSENESS_RANGE

\* Claim C6: in a step where a thermostat runs, one of the two runs, and it
\* is the Andersen thermostat exactly when no temperature adjustment is
\* needed and the set point lies between a fifth of the solid temperature
\* and the liquid temperature, both included; otherwise the isokinetic one.
OneThermostatChosenByBand ==
  hist.op = "stepInternal"
    => /\ ThermostatCalls <= 1
       /\ ThermostatCalls = 1
            => (hist.step.andersenCalls = 1
                  <=> /\ NoAdjustmentNeeded
                      /\ SOLID_TEMPERATURE \div 5 <= hist.step.setPoint
                      /\ hist.step.setPoint <= LIQUID_TEMPERATURE)

\* the Andersen thermostat ran at the upper end of the band
AndersenRanAtLiquidTemperature ==
  /\ hist.op = "stepInternal"
  /\ hist.step.andersenCalls = 1
  /\ hist.step.setPoint = LIQUID_TEMPERATURE

\* Claim C7: after setTemperature with any argument, after a stepInternal
\* and after setPhase, the targetTemperature of both thermostats equals the
\* temperature set point.
ThermostatTargetsMirrorSetPoint ==
  hist.op \in { "setTemperature", "stepInternal", "setPhase" }
    => /\ model.isoKineticThermostat.targetTemperature = model.temperatureSetPoint
       /\ model.andersenThermostat.targetTemperature = model.temperatureSetPoint

(***************************************************************************)
(* Long frames: frames of half a second and of two seconds, the second     *)
(* what the animation loop hands over after the tab was hidden, with the   *)
(* lid on its way to a new target and a request from the pump.             *)
(***************************************************************************)
\* the longest simulationTimeStep DualAtomModel.step accepts, 1.0 s
MAX_ACCEPTED_FRAME == 1000
MaxClockFrame == 3000
LongFrames == { 500, 2000 }
FrameTargets == { 1000, 6000 }

StepFrame ==
  \E dt \in LongFrames, t \in InjectedTemperatures :
    /\ hist.clock + dt <= MaxClockFrame
    /\ Step(dt, NoHits, NoMove, 0, t, "ratio")

MoveLidBetweenFrames ==
  \E height \in FrameTargets : SetTargetParticleContainerHeight(height)

NextFrame ==
  \/ StepFrame
  \/ MoveLidBetweenFrames
  \/ InjectMolecule

SpecFrame == Init /\ [][NextFrame]_vars

\* Claim C11: a step( dt ) with dt above one second is dropped: it takes no
\* step of the engine, injects no molecule, runs no thermostat stage and
\* leaves the height of the container and the time carried over as they
\* were.
LongFrameDropped ==
  hist.op = "stepInternal" /\ hist.step.dt > MAX_ACCEPTED_FRAME
    => /\ hist.step.engineSteps = 0
       /\ hist.step.injections = 0
       /\ ~hist.step.thermostatSeen
       /\ model.particleContainerHeight = hist.step.heightBefore

(***************************************************************************)
(* The walls: updateMoleculePositions and the update of the velocities for *)
(* one molecule on a grid.  Positions are in normalized units (particle    *)
(* diameters), a velocity is the way of one unit of time and a force the   *)
(* velocity it adds in one unit of time, the mass being 1; the time step   *)
(* of a call is 2 units, so timeStep * v + timeStepSqrHalf * f is          *)
(* 2 * v + 2 * f and the velocity gains timeStepHalf * (f + next f) =      *)
(* f + next f.  normalizedContainerHeight is kept multiplied by            *)
(* particleDiameter, as in the rest of the model.                          *)
(***************************************************************************)
PARTICLE_CONTAINER_WIDTH == 10000
sideBounceInset == 1
bottomBounceInset == 1
topBounceInset == 1
\* the diameter of a particle, scaled up to keep the grid small
particleDiameter == 2000
\* the largest speed along an axis and the farthest place of a molecule
MaxSpeed == 1
MaxDistance == 7
\* the contribution of a wall hit at speed 1 to the accumulated pressure
SpeedPressure == 12
MaxCallsWalls == 2

normalizedContainerWidth == PARTICLE_CONTAINER_WIDTH \div particleDiameter

\* normalizedTotalContainerHeight as resetContainerSize leaves it
isNormalizedPositionInContainer(xPos, yPos) ==
  /\ xPos >= 0
  /\ xPos <= normalizedContainerWidth
  /\ yPos >= 0
  /\ yPos * particleDiameter <= PARTICLE_CONTAINER_INITIAL_HEIGHT

\* yPos >= maxY, maxY = normalizedContainerHeight - topBounceInset
AtTop(m, yPos) ==
  yPos * particleDiameter
    >= m.normalizedContainerHeight - topBounceInset * particleDiameter

\* maxY on the grid
TopOfContainer(m) ==
  (m.normalizedContainerHeight - topBounceInset * particleDiameter) \div particleDiameter

\* LeavesContainer without the test of the explosion
LeavesContainerAlways(atTop, isExploded) == atTop

\* lines 150-176: a molecule at the top stays in when the lid is on and has
\* left the container when it is exploded
LeavesContainer(atTop, isExploded) == atTop /\ isExploded

\* SidePressure with the velocity added as it is at both walls
SidePressureUnsigned(hitLeft, hitRight, high, vx) ==
  IF (hitLeft \/ hitRight) /\ high THEN vx ELSE 0

\* lines 126-140: what a bounce off a side wall adds to accumulatedPressure
SidePressure(hitLeft, hitRight, high, vx) ==
  IF hitLeft /\ high THEN -vx
  ELSE IF hitRight /\ high THEN vx ELSE 0

\* the body of the loop of updateMoleculePositions for the molecule mol;
\* m gives isExploded, normalizedContainerHeight and normalizedLidVelocityY
moveMolecule(mol, m) ==
  LET xPos == mol.x + 2 * mol.vx + 2 * mol.fx
      yPos == mol.y + 2 * mol.vy + 2 * mol.fy
      \* lines 117-121
      inside == mol.insideContainer \/ isNormalizedPositionInContainer(xPos, yPos)
      minX == sideBounceInset
      minY == bottomBounceInset
      maxX == normalizedContainerWidth - sideBounceInset
      \* yPos > pressureAccumulationMinHeight, 0.3 of the container's height
      high == 10 * yPos * particleDiameter > 3 * m.normalizedContainerHeight
      hitLeft == inside /\ xPos <= minX /\ mol.vx < 0
      hitRight == inside /\ ~hitLeft /\ xPos >= maxX /\ mol.vx > 0
      hitBottom == inside /\ yPos <= minY /\ mol.vy <= 0
      atTop == inside /\ ~hitBottom /\ AtTop(m, yPos)
      leaves == LeavesContainer(atTop, m.isExploded)
      hitLid == atTop /\ ~leaves
      lidVelocity == m.normalizedLidVelocityY
      sidePressure == SidePressure(hitLeft, hitRight, high, mol.vx)
      lidPressure == IF hitLid THEN Abs(mol.vy) ELSE 0
      \* -moleculeVelocityY + lidVelocity * 0.3, to whole units of speed
      bounced == IF mol.vy > 0 THEN (-10 * mol.vy + 3 * lidVelocity) \div 10
                 ELSE IF Abs(mol.vy) < Abs(lidVelocity) THEN lidVelocity
                 ELSE mol.vy
  IN  [ molecule |->
          [ mol EXCEPT
              !.x = IF hitLeft THEN minX ELSE IF hitRight THEN maxX ELSE xPos,
              !.vx = IF hitLeft \/ hitRight THEN -mol.vx ELSE mol.vx,
              !.y = IF hitBottom THEN minY
                    ELSE IF hitLid THEN TopOfContainer(m) ELSE yPos,
              !.vy = IF hitBottom THEN -mol.vy
                     ELSE IF hitLid THEN bounced ELSE mol.vy,
              !.insideContainer = inside /\ ~leaves ],
        accumulatedPressure |-> sidePressure + lidPressure,
        lidChangedParticleVelocity |-> hitLid /\ lidVelocity # 0,
        candidate |-> [ x |-> xPos, y |-> yPos ] ]

\* updateVelocitiesAndRotationRates of the monatomic algorithm for the
\* molecule: the forces of this and of the next step change the velocity
\* (the cap of the speed at 10 lies beyond MaxSpeed), the next force
\* becomes the force
updateVelocity(mol, nextForce) ==
  [ mol EXCEPT !.vx = @ + mol.fx + nextForce.x,
               !.vy = @ + mol.fy + nextForce.y,
               !.fx = nextForce.x,
               !.fy = nextForce.y ]

\* what a call of updateForcesAndMotion on the molecule showed
NoWalls ==
  [ calls |-> 0, wasInside |-> TRUE, wasExploded |-> FALSE,
    candidate |-> [ x |-> 0, y |-> 0 ], accumulatedPressure |-> 0,
    pressureAssertionFailed |-> FALSE ]

\* updateForcesAndMotion( timeStep ) with the force the interactions put
\* on the molecule as an input
updateForcesAndMotionOfMolecule(w, nextForce) ==
  LET r == moveMolecule(w.m.molecule, w.m)
      w1 == [ w EXCEPT
                !.m.molecule = r.molecule,
                !.m.verlet.lidChangedParticleVelocity =
                   @ \/ r.lidChangedParticleVelocity,
                !.h.walls =
                   [ calls |-> @.calls + 1,
                     wasInside |-> w.m.molecule.insideContainer,
                     wasExploded |-> w.m.isExploded,
                     candidate |-> r.candidate,
                     accumulatedPressure |-> r.accumulatedPressure,
                     \* the assertion at the entry of updatePressure
                     pressureAssertionFailed |->
                       @.pressureAssertionFailed \/ r.accumulatedPressure < 0 ] ]
      w2 == updatePressure(w1, SpeedPressure * r.accumulatedPressure,
                           MAX_PARTICLE_MOTION_TIME_STEP)
  IN  [ w2 EXCEPT !.m.molecule = updateVelocity(@, nextForce) ]

\* the forces on the molecule: along one axis, up to 2
WallForces ==
  { f \in [ x : -2..2, y : -2..2 ] : f.x = 0 \/ f.y = 0 }

\* the container at the first call: its height with the velocity of the
\* lid that can go with it
WallContainers ==
  { [ height |-> PARTICLE_CONTAINER_INITIAL_HEIGHT, lid |-> 0 ],
    [ height |-> PARTICLE_CONTAINER_INITIAL_HEIGHT, lid |-> 1 ],
    [ height |-> 6000, lid |-> 0 ],
    [ height |-> 6000, lid |-> 1 ],
    [ height |-> 6000, lid |-> -1 ] }

\* the molecule at the first call: near the left wall and the floor, with
\* the velocity and the force that earlier steps left it
InitWalls ==
  \E isExploded \in BOOLEAN, c \in WallContainers, x \in { 1, 3 }, y \in { 1, 2 },
     v \in [ x : -MaxSpeed..MaxSpeed, y : -MaxSpeed..MaxSpeed ], f \in WallForces :
    /\ model =
         [ molecule |-> [ x |-> x, y |-> y, vx |-> v.x, vy |-> v.y,
                          fx |-> f.x, fy |-> f.y, insideContainer |-> TRUE ] ]
         @@ [ MultipleParticleModel.m EXCEPT
                !.isExploded = isExploded,
                !.particleContainerHeight = c.height,
                !.targetContainerHeight = c.height,
                !.normalizedContainerHeight = c.height,
                !.normalizedLidVelocityY = c.lid ]
    /\ hist = [ walls |-> NoWalls ] @@ MultipleParticleModel.h

UpdateForcesAndMotion ==
  \E nextForce \in WallForces :
    LET w == updateForcesAndMotionOfMolecule(
               Begin(World, "updateForcesAndMotion"), nextForce)
    IN  /\ hist.walls.calls < MaxCallsWalls
        /\ Abs(w.m.molecule.vx) <= MaxSpeed
        /\ Abs(w.m.molecule.vy) <= MaxSpeed
        /\ Abs(w.m.molecule.x) <= MaxDistance
        /\ Abs(w.m.molecule.y) <= MaxDistance
        /\ Becomes(w)

NextWalls == UpdateForcesAndMotion

SpecWalls == InitWalls /\ [][NextWalls]_vars

\* Claim C13: the insideContainer flag of a molecule goes from true to false
\* only in a position update on an exploded container in which the
\* candidate y is at or above the top bound; on an unexploded container the
\* molecule stays flagged inside, and one that reaches the top is put at
\* maxY.
LeavesOnlyThroughOpenTop ==
  hist.walls.calls > 0 /\ hist.walls.wasInside
    => /\ ~model.molecule.insideContainer
            => hist.walls.wasExploded /\ AtTop(model, hist.walls.candidate.y)
       /\ ~hist.walls.wasExploded
            => /\ model.molecule.insideContainer
               /\ AtTop(model, hist.walls.candidate.y)
                    => model.molecule.y = TopOfContainer(model)

\* a molecule has left the exploded container through the top
MoleculeLeftThroughTop ==
  /\ hist.walls.calls > 0
  /\ hist.walls.wasInside
  /\ hist.walls.wasExploded
  /\ ~model.molecule.insideContainer

\* Claim C14: after updateMoleculePositions a molecule flagged inside the
\* container is not below the floor and not beyond a side wall: its y is
\* at least bottomBounceInset and its x between sideBounceInset and the
\* width less sideBounceInset, whatever its position, velocity and force
\* were.
InsideStaysWithinWalls ==
  hist.walls.calls > 0 /\ model.molecule.insideContainer
    => /\ model.molecule.y >= bottomBounceInset
       /\ model.molecule.x >= sideBounceInset
       /\ model.molecule.x <= normalizedContainerWidth - sideBounceInset

\* Claim C15: the pressure accumulated in updateMoleculePositions is never
\* negative, so the assertion at the entry of updatePressure holds; the
\* pressure of the integrator is never negative after updatePressure and
\* is 0 after a call on an exploded container.
PressureNeverNegative ==
  /\ hist.walls.accumulatedPressure >= 0
  /\ ~hist.walls.pressureAssertionFailed
  /\ model.verlet.pressure >= 0
  /\ hist.walls.calls > 0 /\ hist.walls.wasExploded => model.verlet.pressure = 0

\* a bounce off the left wall has raised the pressure
LeftWallRaisedPressure ==
  /\ hist.walls.calls > 0
  /\ hist.walls.candidate.x <= sideBounceInset
  /\ hist.walls.accumulatedPressure > 0
  /\ model.verlet.pressure > 0

(***************************************************************************)
(* The interaction forces of the monatomic algorithm.  Positions are on a  *)
(* grid of half particle diameters, squared distances are counted in       *)
(* twentieths and forces in units of 1/2000; the products and quotients    *)
(* are taken in the order of the code, in thousandths.                     *)
(***************************************************************************)

\* MIN_DISTANCE_SQUARED of the algorithm, 0.90
MIN_DISTANCE_SQUARED == 18

\* PARTICLE_INTERACTION_DISTANCE_THRESH_SQRD of the algorithm, 6.25
PARTICLE_INTERACTION_DISTANCE_THRESH_SQRD == 125

\* NOMINAL_GRAVITATIONAL_ACCEL, -0.045
NOMINAL_GRAVITATIONAL_ACCEL == -90

\* epsilon of the monatomic algorithm
epsilon == 1

\* the number of atoms and the extent of the grid they stand on
NumberOfAtoms == 3
GridWidth == 6
GridHeight == 1

\* initializeForces: the next force of every atom is gravity alone
initializeForces(d) ==
  [ d EXCEPT !.nextMoleculeForces =
      [ i \in 1..d.numberOfMolecules |-> [ x |-> 0, y |-> NOMINAL_GRAVITATIONAL_ACCEL ] ] ]

\* dx * dx + dy * dy
DistanceSquared(dx, dy) == 5 * (dx * dx + dy * dy)

\* 48 * r2inv * r6inv * ( r6inv - 0.5 ) * epsilon, in thousandths
forceScalar(distanceSqrd) ==
  LET r2inv == 20000 \div distanceSqrd
      r6inv == (r2inv * r2inv * r2inv) \div 1000000
  IN  (((48 * r2inv * r6inv) \div 1000) * (r6inv - 500) * epsilon) \div 1000

\* the force of the pair put on both atoms with the same sign
addPairForceToBoth(forces, i, j, forceX, forceY) ==
  [ forces EXCEPT ![i] = [ x |-> @.x + forceX, y |-> @.y + forceY ],
                  ![j] = [ x |-> @.x + forceX, y |-> @.y + forceY ] ]

\* nextAtomForcesI.addXY and nextAtomForces[ j ].subtractXY
addPairForce(forces, i, j, forceX, forceY) ==
  [ forces EXCEPT ![i] = [ x |-> @.x + forceX, y |-> @.y + forceY ],
                  ![j] = [ x |-> @.x - forceX, y |-> @.y - forceY ] ]

\* the body of the inner loop of updateInteractionForces for atoms i < j
pairInteraction(positions, forces, i, j) ==
  LET dx0 == positions[i].x - positions[j].x
      dy0 == positions[i].y - positions[j].y
      clamped == Max(DistanceSquared(dx0, dy0), MIN_DISTANCE_SQUARED)
      onTop == clamped = 0
      dx == IF onTop THEN 2 ELSE dx0
      dy == IF onTop THEN 2 ELSE dy0
      distanceSqrd == IF onTop THEN 40 ELSE clamped
  IN  IF distanceSqrd < PARTICLE_INTERACTION_DISTANCE_THRESH_SQRD
      THEN addPairForce(forces, i, j, dx * forceScalar(distanceSqrd),
                        dy * forceScalar(distanceSqrd))
      ELSE forces

\* the pairs ( i, j ) with i < j from pair number k on, in the order of the
\* loops
RECURSIVE interactionsFrom(_, _, _, _)
interactionsFrom(positions, forces, i, j) ==
  IF i > Len(positions) THEN forces
  ELSE IF j > Len(positions) THEN interactionsFrom(positions, forces, i + 1, i + 2)
  ELSE interactionsFrom(positions, pairInteraction(positions, forces, i, j), i, j + 1)

\* updateInteractionForces( moleculeDataSet )
updateInteractionForces(d) ==
  [ d EXCEPT !.nextMoleculeForces =
      interactionsFrom(d.moleculeCenterOfMassPositions, @, 1, 2) ]

\* the atoms on the grid, before the forces of the step are computed
InitForces ==
  \E positions \in [ 1..NumberOfAtoms -> [ x : 0..GridWidth, y : 0..GridHeight ] ] :
    /\ model = [ numberOfMolecules |-> NumberOfAtoms,
                 moleculeCenterOfMassPositions |-> positions,
                 nextMoleculeForces |->
                   [ i \in 1..NumberOfAtoms |-> [ x |-> 0, y |-> 0 ] ] ]
    /\ hist = [ op |-> "none" ]

\* initializeForces and updateInteractionForces, as updateForcesAndMotion
\* calls them
UpdateInteractionForces ==
  /\ hist.op = "none"
  /\ model' = updateInteractionForces(initializeForces(model))
  /\ hist' = [ op |-> "updateInteractionForces" ]

NextForces == UpdateInteractionForces

SpecForces == InitForces /\ [][NextForces]_vars

\* the sum of a component over the atoms
RECURSIVE SumForces(_, _)
SumForces(forces, n) ==
  IF n = 0 THEN [ x |-> 0, y |-> 0 ]
  ELSE [ x |-> SumForces(forces, n - 1).x + forces[n].x,
         y |-> SumForces(forces, n - 1).y + forces[n].y ]

\* atom i has no other atom within the interaction distance
Isolated(i) ==
  \A j \in 1..model.numberOfMolecules \ { i } :
    DistanceSquared(
      model.moleculeCenterOfMassPositions[i].x - model.moleculeCenterOfMassPositions[j].x,
      model.moleculeCenterOfMassPositions[i].y - model.moleculeCenterOfMassPositions[j].y)
      >= PARTICLE_INTERACTION_DISTANCE_THRESH_SQRD

\* Claim C16: after updateInteractionForces on a monatomic data set the
\* forces of the pairs cancel: the sum of nextMoleculeForces over the atoms
\* is the sum that initializeForces put there, no x component and gravity
\* once for every atom; a pair at a squared distance of 6.25 or more adds
\* nothing, so an atom with no nearer neighbour keeps gravity alone.
InteractionForcesCancel ==
  hist.op = "updateInteractionForces"
    => /\ SumForces(model.nextMoleculeForces, model.numberOfMolecules)
            = [ x |-> 0, y |-> model.numberOfMolecules * NOMINAL_GRAVITATIONAL_ACCEL ]
       /\ \A i \in 1..model.numberOfMolecules :
            Isolated(i) => model.nextMoleculeForces[i]
                             = [ x |-> 0, y |-> NOMINAL_GRAVITATIONAL_ACCEL ]

\* two atoms push on each other while the third is out of reach
PairInteractsThirdIsolated ==
  /\ hist.op = "updateInteractionForces"
  /\ model.nextMoleculeForces[1].x # 0
  /\ model.nextMoleculeForces[2].x = -model.nextMoleculeForces[1].x
  /\ Isolated(3)

(***************************************************************************)
(* DiatomicPhaseStateChanger.  Lengths are in hundredths of the particle   *)
(* diameter, angles in hundredths of a radian.  Math.random() is one of    *)
(* RandomDraws, in tenths; a rotation rate is kept as the draw it was      *)
(* made from.  The velocities the changer draws take no part in the        *)
(* placement and are left out.                                             *)
(***************************************************************************)

\* MIN_INITIAL_DIAMETER_DISTANCE, 2.0
MIN_INITIAL_DIAMETER_DISTANCE == 200

\* MIN_INITIAL_DIAMETER_DISTANCE * LIQUID_SPACING_FACTOR, 2.0 * 0.7
LIQUID_RING_SPACING == 140

\* MIN_INITIAL_DIAMETER_DISTANCE * GAS_SPACING_FACTOR, 2.0 * 1.0
GAS_SPACING == 200

\* constants of AbstractPhaseStateChanger
MIN_INITIAL_PARTICLE_TO_WALL_DISTANCE == 150
DISTANCE_BETWEEN_PARTICLES_IN_CRYSTAL == 12
MAX_PLACEMENT_ATTEMPTS == 4

\* the calls of setPhase in a run
MaxCallsPhase == 2

\* the values of Math.random(), in tenths
RandomDraws == { 0, 9 }

\* the numbers of molecules and the heights of the container; the draws of
\* setPhaseGas are followed for the smaller numbers only
PhaseMoleculeCounts == { 1, 2, 4 }
GasMoleculeCounts == { 1, 2 }
PhaseHeights == { PARTICLE_CONTAINER_INITIAL_HEIGHT, 6000 }

getNormalizedContainerWidth == (100 * PARTICLE_CONTAINER_WIDTH) \div particleDiameter

getNormalizedContainerHeight(m) == (100 * m.normalizedContainerHeight) \div particleDiameter

\* Math.round( Math.sqrt( n ) )
RoundSqrt(n) == CHOOSE r \in 0..n : (2 * r - 1) * (2 * r - 1) <= 4 * n /\ 4 * n < (2 * r + 1) * (2 * r + 1)

\* what a call of setPhase of the changer wrote
NoPhase ==
  [ calls |-> 0, phaseID |-> "none", moleculesBefore |-> 0, atomsPerMoleculeBefore |-> 0,
    positionsAssigned |-> { }, anglesAssigned |-> { }, ratesAssigned |-> { },
    accepted |-> { }, fallbackSearches |-> 0, modelSteps |-> 0,
    twiceIndices |-> << >>, thrown |-> FALSE ]

\* the loops of setPhaseSolid from row i, column j on; twiceMoleculesPerLayer
\* is Math.round( Math.sqrt( numberOfMolecules * 2 ) ), and twiceIndex is
\* twice ( i * moleculesPerLayer ) + j, which is a whole number of halves.
\* An index that is not an element of the array reads undefined, and the
\* call of setXY on it throws.
RECURSIVE solidPlacement(_, _, _, _, _)
solidPlacement(w, twiceMoleculesPerLayer, i, j, moleculesPlaced) ==
  LET d == w.m.diatomic
      crystalWidth == (twiceMoleculesPerLayer * 170) \div 2
      startingPosX == getNormalizedContainerWidth \div 2 - crystalWidth \div 2
      startingPosY == 120 + DISTANCE_BETWEEN_PARTICLES_IN_CRYSTAL
      shift == IF i % 2 # 0 THEN (100 + DISTANCE_BETWEEN_PARTICLES_IN_CRYSTAL) \div 2 ELSE 0
      xPos == startingPosX + j * MIN_INITIAL_DIAMETER_DISTANCE + shift
      yPos == startingPosY + (i * MIN_INITIAL_DIAMETER_DISTANCE) \div 2
      twiceIndex == i * twiceMoleculesPerLayer + 2 * j
      index == twiceIndex \div 2 + 1
  IN  IF i >= d.numberOfMolecules THEN w
      ELSE IF 2 * j >= twiceMoleculesPerLayer \/ moleculesPlaced >= d.numberOfMolecules
      THEN solidPlacement(w, twiceMoleculesPerLayer, i + 1, 0, moleculesPlaced)
      ELSE IF twiceIndex % 2 # 0 \/ index > d.numberOfMolecules
      THEN [ w EXCEPT !.h.phase.twiceIndices = Append(@, twiceIndex),
                      !.h.phase.thrown = TRUE ]
      ELSE solidPlacement(
             [ w EXCEPT !.m.diatomic.moleculeCenterOfMassPositions[index] =
                          [ x |-> xPos, y |-> yPos ],
                        !.m.diatomic.moleculeRotationAngles[index] = 0,
                        !.h.phase.twiceIndices = Append(@, twiceIndex),
                        !.h.phase.positionsAssigned = @ \cup { index },
                        !.h.phase.anglesAssigned = @ \cup { index } ],
             twiceMoleculesPerLayer, i, j + 1, moleculesPlaced + 1)

\* setPhaseSolid
setPhaseSolid(w) ==
  LET w1 == setTemperature(w, SOLID_TEMPERATURE)
  IN  { solidPlacement(w1, RoundSqrt(2 * w1.m.diatomic.numberOfMolecules), 0, 0, 0) }

\* distanceFromCenter times the cosine and the sine of the angle, and the
\* angle with a quarter turn added, for the position on the ring that the
\* counters currentLayer and particlesOnCurrentLayer name
RingOffset(currentLayer, particlesOnCurrentLayer) ==
  LET ring0 == << <<0, 0, 165>> >>
      ring1 == << <<131, 49, 193>>, <<-26, 138, 333>>, <<-140, -2, 473>>,
                  <<-22, -138, 613>>, <<133, -45, 753>> >>
      ring2 == << <<212, 183, 229>>, <<44, 277, 299>>, <<-145, 240, 369>>,
                  <<-265, 90, 439>>, <<-261, -102, 509>>, <<-134, -246, 579>>,
                  <<56, -274, 649>>, <<220, -174, 719>>, <<280, 9, 789>> >>
      ring3 == << <<201, 369, 264>>, <<14, 420, 311>>, <<-177, 381, 358>>,
                  <<-329, 261, 404>>, <<-411, 85, 451>>, <<-406, -109, 498>>,
                  <<-313, -280, 544>>, <<-154, -391, 591>>, <<39, -418, 638>>,
                  <<223, -356, 684>>, <<359, -218, 731>>, <<419, -33, 778>>,
                  <<389, 159, 824>>, <<276, 317, 871>> >>
      rings == << ring0, ring1, ring2, ring3 >>
      o == rings[currentLayer + 1][particlesOnCurrentLayer + 1]
  IN  [ x |-> o[1], y |-> o[2], angle |-> o[3] ]

\* particlesOnCurrentLayer >= particlesThatWillFitOnCurrentLayer, which is
\* 1 on layer 0 and currentLayer * 2 * Math.PI / 1.4 on the others
LayerFull(currentLayer, particlesOnCurrentLayer) ==
  IF currentLayer = 0 THEN particlesOnCurrentLayer >= 1
  ELSE particlesOnCurrentLayer * LIQUID_RING_SPACING * 100 >= currentLayer * 62832

\* the test of an acceptable position of setPhaseLiquid
AcceptablePosition(m, xPos, yPos) ==
  /\ xPos > MIN_INITIAL_PARTICLE_TO_WALL_DISTANCE
  /\ xPos < getNormalizedContainerWidth - MIN_INITIAL_PARTICLE_TO_WALL_DISTANCE
  /\ yPos > MIN_INITIAL_PARTICLE_TO_WALL_DISTANCE
  /\ xPos < getNormalizedContainerHeight(m) - MIN_INITIAL_PARTICLE_TO_WALL_DISTANCE

\* the loops of setPhaseLiquid from molecule i, attempt j on
RECURSIVE liquidPlacement(_, _, _, _, _, _)
liquidPlacement(w, i, j, moleculesPlaced, currentLayer, particlesOnCurrentLayer) ==
  LET d == w.m.diatomic
      o == RingOffset(currentLayer, particlesOnCurrentLayer)
      xPos == getNormalizedContainerWidth \div 2 + o.x
      yPos == getNormalizedContainerHeight(w.m) \div 4 + o.y
      full == LayerFull(currentLayer, particlesOnCurrentLayer + 1)
      nextLayer == IF full THEN currentLayer + 1 ELSE currentLayer
      nextOnLayer == IF full THEN 0 ELSE particlesOnCurrentLayer + 1
  IN  IF i >= d.numberOfMolecules THEN w
      ELSE IF j >= MAX_PLACEMENT_ATTEMPTS
      THEN liquidPlacement(w, i + 1, 0, moleculesPlaced, currentLayer,
                           particlesOnCurrentLayer)
      ELSE IF AcceptablePosition(w.m, xPos, yPos)
      THEN liquidPlacement(
             [ w EXCEPT !.m.diatomic.moleculeCenterOfMassPositions[moleculesPlaced + 1] =
                          [ x |-> xPos, y |-> yPos ],
                        !.m.diatomic.moleculeRotationAngles[moleculesPlaced + 1] = o.angle,
                        !.h.phase.positionsAssigned = @ \cup { moleculesPlaced + 1 },
                        !.h.phase.anglesAssigned = @ \cup { moleculesPlaced + 1 },
                        !.h.phase.accepted = @ \cup { [ x |-> xPos, y |-> yPos ] } ],
             i + 1, 0, moleculesPlaced + 1, nextLayer, nextOnLayer)
      ELSE liquidPlacement(w, i, j + 1, moleculesPlaced, nextLayer, nextOnLayer)

\* setPhaseLiquid: the outcomes for the draws of the rotation rates
setPhaseLiquid(w) ==
  LET w1 == setTemperature(w, LIQUID_TEMPERATURE)
      n == w1.m.diatomic.numberOfMolecules
  IN  { liquidPlacement(
          [ w1 EXCEPT !.m.diatomic.moleculeRotationRates = rates,
                      !.h.phase.ratesAssigned = 1..n ],
          0, 0, 0, 0, 0) : rates \in [ 1..n -> RandomDraws ] }

\* the squared distance of two points
DistanceSquaredBetween(p, q) == (p.x - q.x) * (p.x - q.x) + (p.y - q.y) * (p.y - q.y)

\* position p is less than the spacing away from none of the molecules
\* before molecule i
PositionAvailable(positions, i, p, spacing) ==
  \A k \in 1..(i - 1) : DistanceSquaredBetween(positions[k], p) >= spacing * spacing

\* null, where a point is expected
NullPoint == [ x |-> -1, y |-> -1 ]

\* findOpenMoleculeLocation of AbstractPhaseStateChanger: a location inside
\* the margins of the container away from all molecules, or null
findOpenMoleculeLocation(m, positions) ==
  LET inside == { p \in [ x : { 150, 250, 350 }, y : { 150, 250, 350 } ] :
                    /\ p.x <= getNormalizedContainerWidth - MIN_INITIAL_PARTICLE_TO_WALL_DISTANCE
                    /\ p.y <= getNormalizedContainerHeight(m) - MIN_INITIAL_PARTICLE_TO_WALL_DISTANCE }
      open == { p \in inside :
                  PositionAvailable(positions, Len(positions) + 1, p,
                                    MIN_INITIAL_DIAMETER_DISTANCE) }
  IN  IF open = { } THEN { NullPoint } ELSE open

\* the placement loops of setPhaseGas from molecule i, attempt j on: the
\* positions and the number of searches for an open location, for the
\* draws of Math.random()
RECURSIVE gasPlacement(_, _, _, _, _)
gasPlacement(m, positions, fallbackSearches, i, j) ==
  LET rangeX == getNormalizedContainerWidth - 2 * MIN_INITIAL_PARTICLE_TO_WALL_DISTANCE
      rangeY == getNormalizedContainerWidth - 2 * MIN_INITIAL_PARTICLE_TO_WALL_DISTANCE
  IN  IF i >= Len(positions)
      THEN { [ positions |-> positions, fallbackSearches |-> fallbackSearches ] }
      ELSE UNION {
             LET newPos == [ x |-> MIN_INITIAL_PARTICLE_TO_WALL_DISTANCE + (rx * rangeX) \div 10,
                             y |-> MIN_INITIAL_PARTICLE_TO_WALL_DISTANCE + (ry * rangeY) \div 10 ]
             IN  IF PositionAvailable(positions, i + 1, newPos, GAS_SPACING)
                 THEN gasPlacement(m, [ positions EXCEPT ![i + 1] = newPos ],
                                   fallbackSearches, i + 1, 0)
                 ELSE IF j = MAX_PLACEMENT_ATTEMPTS - 1
                 THEN UNION { gasPlacement(
                                m,
                                IF openPoint = NullPoint THEN positions
                                ELSE [ positions EXCEPT ![i + 1] = openPoint ],
                                fallbackSearches + 1, i + 1, 0)
                              : openPoint \in findOpenMoleculeLocation(m, positions) }
                 ELSE gasPlacement(m, positions, fallbackSearches, i, j + 1)
             : rx \in RandomDraws, ry \in RandomDraws }

\* setPhaseGas
setPhaseGas(w) ==
  LET w1 == setTemperature(w, GAS_TEMPERATURE)
      n == w1.m.diatomic.numberOfMolecules
      placements == gasPlacement(w1.m, [ i \in 1..n |-> [ x |-> 0, y |-> 0 ] ], 0, 0, 0)
  IN  { [ w1 EXCEPT !.m.diatomic.moleculeCenterOfMassPositions = placement.positions,
                    !.m.diatomic.moleculeRotationAngles = angles,
                    !.m.diatomic.moleculeRotationRates = rates,
                    !.h.phase.fallbackSearches = placement.fallbackSearches,
                    !.h.phase.positionsAssigned = 1..n,
                    !.h.phase.anglesAssigned = 1..n,
                    !.h.phase.ratesAssigned = 1..n ]
        : placement \in placements,
          angles \in [ 1..n -> RandomDraws ], rates \in [ 1..n -> RandomDraws ] }

\* postChangeModelSteps of setPhase
PostChangeModelSteps(phaseID) == IF phaseID = "LIQUID" THEN LIQUID_SETTLE_STEPS ELSE 0

\* setPhase( phaseID ) of the changer: the outcomes for the draws
diatomicSetPhase(w, phaseID) ==
  LET w1 == [ w EXCEPT !.h.phase =
                [ NoPhase EXCEPT
                    !.calls = w.h.phase.calls + 1,
                    !.phaseID = phaseID,
                    !.moleculesBefore = w.m.diatomic.numberOfMolecules,
                    !.atomsPerMoleculeBefore = w.m.diatomic.atomsPerMolecule,
                    !.modelSteps = PostChangeModelSteps(phaseID) ] ]
      placed == IF phaseID = "SOLID" THEN setPhaseSolid(w1)
                ELSE IF phaseID = "LIQUID" THEN setPhaseLiquid(w1)
                ELSE setPhaseGas(w1)
  IN  { IF p.h.phase.thrown THEN p
        ELSE [ p EXCEPT !.m.diatomic.numberOfSafeMolecules = p.m.diatomic.numberOfMolecules ]
        : p \in placed }

\* the changer on a data set of diatomic molecules that stand in a row on
\* the floor of the container
InitPhase ==
  \E n \in PhaseMoleculeCounts, height \in PhaseHeights :
    /\ model =
         [ diatomic |->
             [ numberOfMolecules |-> n, atomsPerMolecule |-> 2,
               numberOfSafeMolecules |-> 0,
               moleculeCenterOfMassPositions |->
                 [ i \in 1..n |-> [ x |-> 100 * i, y |-> 100 ] ],
               moleculeRotationAngles |-> [ i \in 1..n |-> 0 ],
               moleculeRotationRates |-> [ i \in 1..n |-> 0 ] ] ]
         @@ [ MultipleParticleModel.m EXCEPT
                !.particleContainerHeight = height,
                !.targetContainerHeight = height,
                !.normalizedContainerHeight = height ]
    /\ hist = [ phase |-> NoPhase ] @@ MultipleParticleModel.h

DiatomicSetPhase ==
  \E phaseID \in PhaseStateEnum :
    /\ hist.phase.calls < MaxCallsPhase
    /\ phaseID = "GAS" => model.diatomic.numberOfMolecules \in GasMoleculeCounts
    /\ \E w \in diatomicSetPhase(Begin(World, "setPhase"), phaseID) : Becomes(w)

NextPhase == DiatomicSetPhase

SpecPhase == InitPhase /\ [][NextPhase]_vars

\* Claim C17: setPhase( GAS ) of the diatomic changer, called once or twice
\* with no step between, leaves the number of molecules and
\* atomsPerMolecule as they were and puts every centre of mass inside the
\* container, x from 0 to the normalized width and y from 0 to the current
\* normalized height, at every allowed height of the container.
GasKeepsMoleculesInContainer ==
  hist.op = "setPhase" /\ hist.phase.phaseID = "GAS"
    => /\ model.diatomic.numberOfMolecules = hist.phase.moleculesBefore
       /\ model.diatomic.atomsPerMolecule = hist.phase.atomsPerMoleculeBefore
       /\ \A i \in 1..model.diatomic.numberOfMolecules :
            LET p == model.diatomic.moleculeCenterOfMassPositions[i]
            IN  /\ 0 <= p.x /\ p.x <= getNormalizedContainerWidth
                /\ 0 <= p.y /\ p.y <= getNormalizedContainerHeight(model)

\* Claim C18: setPhase( LIQUID ) gives every molecule a new position, a
\* molecule whose ring positions were all rejected included, and every
\* accepted position keeps the margin to the walls in x and in y.
LiquidPlacesEveryMolecule ==
  hist.op = "setPhase" /\ hist.phase.phaseID = "LIQUID"
    => /\ hist.phase.positionsAssigned = 1..model.diatomic.numberOfMolecules
       /\ \A p \in hist.phase.accepted :
            /\ p.x > MIN_INITIAL_PARTICLE_TO_WALL_DISTANCE
            /\ p.x < getNormalizedContainerWidth - MIN_INITIAL_PARTICLE_TO_WALL_DISTANCE
            /\ p.y > MIN_INITIAL_PARTICLE_TO_WALL_DISTANCE
            /\ p.y < getNormalizedContainerHeight(model) - MIN_INITIAL_PARTICLE_TO_WALL_DISTANCE

\* Claim C19: for each of SOLID, LIQUID and GAS, setPhase of the changer
\* sets the temperature set point to the constant of the phase and gives
\* every molecule a new rotation angle and a new rotation rate.
PhaseSetsTemperatureAndRotation ==
  hist.op = "setPhase"
    => /\ model.temperatureSetPoint = PhaseTemperature(hist.phase.phaseID)
       /\ hist.phase.anglesAssigned = 1..model.diatomic.numberOfMolecules
       /\ hist.phase.ratesAssigned = 1..model.diatomic.numberOfMolecules

\* Claim C20: one stepInternal( dt ) on an unexploded container moves the
\* height toward the target and never past it, up by at most
\* MAX_CONTAINER_EXPAND_RATE * dt and down by at most
\* MAX_CONTAINER_SHRINK_RATE * dt; when the height is at the target the
\* change of the height and the velocity of the lid are 0.
HeightApproachesTarget ==
  hist.op = "stepInternal" /\ (~model.isExploded \/ hist.step.exploded)
    => LET before == hist.step.heightBefore
           after == model.particleContainerHeight
           target == model.targetContainerHeight
       IN  /\ before <= target
                => /\ before <= after /\ after <= target
                   /\ 1000 * (after - before) <= MAX_CONTAINER_EXPAND_RATE * hist.step.dt
           /\ before >= target
                => /\ target <= after /\ after <= before
                   /\ 1000 * (before - after) <= MAX_CONTAINER_SHRINK_RATE * hist.step.dt
           /\ before = target
                => model.heightChangeThisStep = 0 /\ model.normalizedLidVelocityY = 0
           /\ model.heightChangeThisStep = after - before

\* the lid went down by what the rate allows and is still above the target
LidLoweredAtShrinkRate ==
  /\ hist.op = "stepInternal"
  /\ ~model.isExploded
  /\ 1000 * (hist.step.heightBefore - model.particleContainerHeight)
       = MAX_CONTAINER_SHRINK_RATE * hist.step.dt
  /\ model.particleContainerHeight > model.targetContainerHeight

(***************************************************************************)
(* The lid on its way to the target: frames without end, of which the      *)
(* history keeps the parity in place of the clock, and the target moved at *)
(* any time.                                                               *)
(***************************************************************************)
LidFrames == { 500 }
LidTargets == { MIN_ALLOWABLE_CONTAINER_HEIGHT, 6000, PARTICLE_CONTAINER_INITIAL_HEIGHT }

StepLid ==
  \E dt \in LidFrames :
    \E w \in { stepInternal(Begin(World, "stepInternal"), dt, NoHits, NoMove, 0,
                            INITIAL_TEMPERATURE, "ratio") } :
      Becomes([ w EXCEPT !.h.clock = 1 - hist.clock, !.h.handedTime = 0,
                         !.h.sinceInjection = MOLECULE_INJECTION_HOLDOFF_TIME ])

TurnLid ==
  \E height \in LidTargets : SetTargetParticleContainerHeight(height)

NextLid ==
  \/ StepLid
  \/ TurnLid

\* the frames keep coming: StepLid is always enabled and always changes the
\* parity, so this is WF_vars(StepLid)
SpecLid == Init /\ [][NextLid]_vars /\ []<><<StepLid>>_vars

\* Claim C21: with the container unexploded and the target held, repeated
\* stepInternal( dt ) calls with dt > 0 eventually make the height of the
\* container equal to the target, and from then on the height stays at the
\* target until the target changes or the container explodes.
LidReachesTarget ==
  /\ \A target \in LidTargets :
       (model.targetContainerHeight = target /\ ~model.isExploded)
         ~> \/ model.particleContainerHeight = target
            \/ model.targetContainerHeight # target
            \/ model.isExploded
  /\ [][ /\ model.particleContainerHeight = model.targetContainerHeight
         /\ ~model.isExploded
         /\ model'.targetContainerHeight = model.targetContainerHeight
         /\ ~model'.isExploded
         => model'.particleContainerHeight = model'.targetContainerHeight ]_vars

\* the lid has come down to the lowest target
LidArrivedAtLowestTarget ==
  /\ hist.op = "stepInternal"
  /\ hist.step.heightBefore > model.particleContainerHeight
  /\ model.particleContainerHeight = model.targetContainerHeight
  /\ model.targetContainerHeight = MIN_ALLOWABLE_CONTAINER_HEIGHT

\* Claim C22: after any sequence of injectMolecule and stepInternal calls,
\* the steps in which injectMoleculeInternal refuses the injection
\* included, numMoleculesAwaitingInjection is within
\* 0..MAX_MOLECULES_QUEUED_FOR_INJECTION, so that a request made on an
\* empty queue raises the count to 1.
AwaitingInjectionWithinQueue ==
  /\ model.numMoleculesAwaitingInjection >= 0
  /\ model.numMoleculesAwaitingInjection <= MAX_MOLECULES_QUEUED_FOR_INJECTION

\* Claim C29: after reset() no injection is pending:
\* numMoleculesAwaitingInjection and moleculeInjectionHoldoffTimer are 0, so
\* that the steps after a reset add no molecule until injectMolecule is
\* called again.
NothingPendingAfterReset ==
  hist.op = "reset"
    => /\ model.numMoleculesAwaitingInjection = 0
       /\ model.moleculeInjectionHoldoffTimer = 0

\* Claim C25: runThermostat adds a sample to averageTemperatureDifference
\* only in a step in which nothing affected the calculated temperature or
\* the set point: in no step in which a temperature adjustment was needed,
\* a molecule was injected or the lid changed the velocity of a particle.
SampleOnlyFromUndisturbedStep ==
  hist.op = "stepInternal" /\ hist.step.sampleAdded
    => /\ ~temperatureAdjustmentNeeded(hist.step.heating, hist.step.calculated,
                                       hist.step.setPoint)
       /\ hist.step.injections = 0
       /\ ~hist.step.lidHit

(***************************************************************************)
(* MovingAverage on its own: values added and resets, with the values      *)
(* added since the last reset kept as history.                             *)
(***************************************************************************)
MaxAdded == 5
AverageSizes == { 1, 2, 3 }
AverageInitialValues == { 0, 5 }
AverageValues == { -3, 0, 4 }

InitAverage ==
  \E size \in AverageSizes, initialValue \in AverageInitialValues :
    /\ model = [ movingAverage |-> MovingAverage(size, initialValue) ]
    /\ hist = [ op |-> "constructor", added |-> << >> ]

AddValue ==
  \E newValue \in AverageValues :
    /\ Len(hist.added) < MaxAdded
    /\ model' = [ model EXCEPT !.movingAverage = MovingAverageAddValue(@, newValue) ]
    /\ hist' = [ op |-> "addValue", added |-> Append(hist.added, newValue) ]

ResetAverage ==
  /\ model' = [ model EXCEPT !.movingAverage = MovingAverageResetOf(@) ]
  /\ hist' = [ op |-> "reset", added |-> << >> ]

NextAverage ==
  \/ AddValue
  \/ ResetAverage

SpecAverage == InitAverage /\ [][NextAverage]_vars

\* the sum of the entries first..last of a sequence or an array
RECURSIVE SumOfEntries(_, _, _)
SumOfEntries(f, first, last) ==
  IF first > last THEN 0 ELSE f[first] + SumOfEntries(f, first + 1, last)

\* Claim C30: after reset() and k calls of addValue, total is the sum of
\* the entries of the array, currentIndex is k mod size, and the average is
\* the sum of the last min( k, size ) values added and of initialValue for
\* each entry not yet replaced, divided by size; reset() puts initialValue
\* in every entry and 0 in currentIndex.
AverageOfLastValues ==
  LET a == model.movingAverage
      k == Len(hist.added)
      n == Min(k, a.size)
      expected == SumOfEntries(hist.added, k - n + 1, k) + (a.size - n) * a.initialValue
  IN  /\ a.total = SumOfEntries(a.array, 0, a.size - 1)
      /\ a.currentIndex = k % a.size
      /\ a.total = expected
      /\ a.average = expected \div a.size
      /\ hist.op = "reset"
           => /\ \A i \in 0..(a.size - 1) : a.array[i] = a.initialValue
              /\ a.currentIndex = 0

\* more values were added than the array holds, the first one replaced by
\* a different one
AverageWrappedAround ==
  /\ hist.op = "addValue"
  /\ Len(hist.added) > model.movingAverage.size
  /\ model.movingAverage.size > 1
  /\ model.movingAverage.initialValue # 0
  /\ hist.added[1] # hist.added[Len(hist.added)]

\* Claim C26: when two atoms stand exactly on top of each other (dx and dy
\* both 0), updateInteractionForces gives the pair an arbitrary spacing, so
\* that the two receive a force that is not zero, equal and opposite; shown
\* on atoms 1 and 2 with the third atom out of reach.
CoincidentPairPushedApart ==
  /\ hist.op = "updateInteractionForces"
  /\ model.moleculeCenterOfMassPositions[1] = model.moleculeCenterOfMassPositions[2]
  /\ Isolated(3)
  => /\ model.nextMoleculeForces[1] # [ x |-> 0, y |-> NOMINAL_GRAVITATIONAL_ACCEL ]
     /\ model.nextMoleculeForces[1].x = -model.nextMoleculeForces[2].x
     /\ model.nextMoleculeForces[1].y - NOMINAL_GRAVITATIONAL_ACCEL
          = -(model.nextMoleculeForces[2].y - NOMINAL_GRAVITATIONAL_ACCEL)

\* Claim C28: setPhaseSolid of the diatomic changer writes the lattice
\* position, the rotation angle and the velocity of every molecule 0..N-1
\* exactly once, and every index it uses is a whole number inside the
\* arrays, whatever the number of molecules N.
SolidAssignsEveryIndexOnce ==
  hist.op = "setPhase" /\ hist.phase.phaseID = "SOLID"
    => LET used == hist.phase.twiceIndices
           n == model.diatomic.numberOfMolecules
       IN  /\ ~hist.phase.thrown
           /\ Len(used) = n
           /\ \A k \in 1..Len(used) : used[k] % 2 = 0 /\ used[k] \div 2 \in 0..(n - 1)
           /\ \A k, l \in 1..Len(used) : k # l => used[k] # used[l]

(***************************************************************************)
(* DualAtomModel.  Lengths are in thousandths of a picometre, sigma and    *)
(* the radii in picometres, times in milliseconds, velocities in pm/s and  *)
(* accelerations in pm/s per millisecond; forces are counted in the unit   *)
(* that gives the movable atom that acceleration.  Epsilon is in           *)
(* hundredths.  The atoms stay on the x axis.                              *)
(***************************************************************************)

\* constants of DualAtomModel
MAX_APPROXIMATION_ITERATIONS == 100
THRESHOLD_VELOCITY == 100
VIBRATION_COUNTER_RESET_VALUE == 72
MAX_TIME_STEP == 5

\* the number of calls of step in a run
MaxClockDual == 2

\* the atom types ensureValidAtomType supports
DualAtomTypes == { "NEON", "ARGON", "OXYGEN", "ADJUSTABLE" }

\* the radii AtomFactory.createAtom may give an atom, in pm
AtomRadii == { 150 }

\* the places the user drags the movable atom to, and the offsets the
\* vibration of the fixed atom draws
DragPositions == { 215000, 400000 }
VibrationOffsets == { 0, 2000 }

\* the simulationTimeStep values of step, in ms
DualFrames == { 2, 4, 1200 }

\* no atom yet
NullAtom == [ type |-> "null", radius |-> 0, x |-> 0, vx |-> 0, ax |-> 0 ]

\* SigmaTable.getSigma; the radii of the atom classes and
\* DEFAULT_RADIUS stand with the values of the equal pairs
getSigma(atomType1, atomType2) ==
  LET pair == { atomType1, atomType2 }
  IN  IF atomType1 = atomType2
      THEN CASE atomType1 = "NEON" -> 308
             [] atomType1 = "ARGON" -> 376
             [] atomType1 = "OXYGEN" -> 200
             [] OTHER -> 300
      ELSE CASE pair = { "NEON", "ARGON" } -> 343
             [] pair = { "NEON", "OXYGEN" } -> 254
             [] pair = { "ARGON", "OXYGEN" } -> 288
             [] OTHER -> 300

\* InteractionStrengthTable.getInteractionPotential, in hundredths
getInteractionPotential(atomType1, atomType2) ==
  LET pair == { atomType1, atomType2 }
  IN  IF atomType1 = atomType2
      THEN CASE atomType1 = "NEON" -> 3580
             [] atomType1 = "ARGON" -> 11184
             [] atomType1 = "OXYGEN" -> 5950000
             [] OTHER -> 10000
      ELSE CASE pair = { "NEON", "ARGON" } -> 5950
             [] pair = { "NEON", "OXYGEN" } -> 5100
             [] pair = { "ARGON", "OXYGEN" } -> 8500
             [] OTHER -> 21500

\* LjPotentialCalculator.calculateMinimumForceDistance: sigma * 2^(1/6)
calculateMinimumForceDistance(sigma) == (sigma * 112246) \div 100

\* LjPotentialCalculator.calculateAttractiveLjForce and
\* calculateRepulsiveLjForce at a distance: the repulsion is the larger one
\* nearer than the minimum force distance, the attraction farther away
LjForces(sigma, distance) ==
  IF distance < calculateMinimumForceDistance(sigma)
  THEN [ attractive |-> 100, repulsive |-> 1100 ]
  ELSE IF distance = calculateMinimumForceDistance(sigma)
  THEN [ attractive |-> 100, repulsive |-> 100 ]
  ELSE [ attractive |-> 300, repulsive |-> 100 ]

\* resetMovableAtomPos
resetMovableAtomPos(m) ==
  IF m.movableAtom # NullAtom
  THEN [ m EXCEPT !.movableAtom.x = calculateMinimumForceDistance(m.sigma),
                  !.movableAtom.vx = 0,
                  !.movableAtom.ax = 0 ]
  ELSE m

\* a test that refuses no request
NeverJustOneAdjustable(atomType, other) == FALSE

\* the test of setFixedAtomType and setMovableAtomType for a request that
\* sets just one atom to be adjustable; other is the atom the code compares
\* the type with
JustOneAdjustable(atomType, other) ==
  \/ atomType = "ADJUSTABLE" /\ other.type # "ADJUSTABLE"
  \/ atomType # "ADJUSTABLE" /\ other.type = "ADJUSTABLE"

\* setFixedAtomType( atomType ) with an atom of the given radius from the
\* factory
setFixedAtomType(m, atomType, radius, settingBothAtomTypes) ==
  IF m.fixedAtom # NullAtom /\ m.fixedAtom.type = atomType THEN m
  ELSE IF ~settingBothAtomTypes /\ JustOneAdjustable(atomType, m.movableAtom) THEN m
  ELSE LET m1 == [ m EXCEPT !.bondingState = "UNBONDED",
                            !.fixedAtom = [ NullAtom EXCEPT !.type = atomType,
                                                            !.radius = radius ] ]
           m2 == IF m1.movableAtom # NullAtom
                 THEN [ m1 EXCEPT
                          !.sigma = getSigma(atomType, m1.movableAtom.type),
                          !.epsilon = getInteractionPotential(atomType, m1.movableAtom.type) ]
                 ELSE m1
       IN  resetMovableAtomPos(m2)

\* setMovableAtomType( atomType )
setMovableAtomType(m, atomType, radius, settingBothAtomTypes) ==
  IF m.movableAtom # NullAtom /\ m.movableAtom.type = atomType THEN m
  ELSE IF ~settingBothAtomTypes /\ JustOneAdjustable(atomType, m.movableAtom) THEN m
  ELSE LET m1 == [ m EXCEPT !.bondingState = "UNBONDED",
                            !.movableAtom = [ NullAtom EXCEPT !.type = atomType,
                                                              !.radius = radius ] ]
           m2 == [ m1 EXCEPT !.sigma = getSigma(m1.fixedAtom.type, atomType) ]
           m3 == IF m2.fixedAtom # NullAtom
                 THEN [ m2 EXCEPT
                          !.epsilon = getInteractionPotential(m2.fixedAtom.type, atomType) ]
                 ELSE m2
       IN  resetMovableAtomPos(m3)

\* setBothAtomTypes( atomType )
setBothAtomTypes(m, atomType, fixedRadius, movableRadius) ==
  IF \/ m.fixedAtom = NullAtom
     \/ m.movableAtom = NullAtom
     \/ m.fixedAtom.type # atomType
     \/ m.movableAtom.type # atomType
  THEN setMovableAtomType(setFixedAtomType(m, atomType, fixedRadius, TRUE),
                          atomType, movableRadius, TRUE)
  ELSE m

\* setMotionPaused( paused )
setMotionPaused(m, paused) ==
  [ m EXCEPT !.motionPaused = paused, !.movableAtom.vx = 0 ]

\* releaseBond
releaseBond(m) ==
  [ m EXCEPT !.vibrationCounter = IF m.bondingState = "BONDING" THEN 0 ELSE @,
             !.bondingState = "UNBONDED" ]

\* reset of DualAtomModel: the properties go back to their first values
dualReset(m, fixedRadius, movableRadius) ==
  LET m1 == [ m EXCEPT !.motionPaused = FALSE, !.isPlaying = TRUE, !.speed = "normal" ]
      m2 == IF \/ m1.fixedAtom = NullAtom
               \/ m1.fixedAtom.type # "NEON"
               \/ m1.movableAtom = NullAtom
               \/ m1.movableAtom.type # "NEON"
            THEN setBothAtomTypes(m1, "NEON", fixedRadius, movableRadius)
            ELSE resetMovableAtomPos(m1)
  IN  [ m2 EXCEPT !.motionPaused = FALSE ]

\* the constructor of DualAtomModel
DualAtomModel(fixedRadius, movableRadius) ==
  dualReset([ fixedAtom |-> NullAtom,
              movableAtom |-> NullAtom,
              bondingState |-> "UNBONDED",
              vibrationCounter |-> 0,
              sigma |-> 0,
              epsilon |-> 0,
              residualTime |-> 0,
              motionPaused |-> FALSE,
              isPlaying |-> TRUE,
              speed |-> "normal",
              attractiveForce |-> 0,
              repulsiveForce |-> 0,
              minPotentialDistance |-> 0,
              bondedOscillationLeftDistance |-> 0,
              bondedOscillationRightDistance |-> 0 ],
            fixedRadius, movableRadius)

\* updateForces
updateForces(m) ==
  LET limit == (m.fixedAtom.radius + m.movableAtom.radius) * 125
      distance == Max(Abs(m.movableAtom.x), limit)
      forces == LjForces(m.sigma, distance)
  IN  [ m EXCEPT !.attractiveForce = forces.attractive,
                 !.repulsiveForce = forces.repulsive ]

\* positionChanged, after the view put the movable atom at x
positionChanged(m, x) ==
  LET m1 == [ m EXCEPT !.movableAtom.x = x ]
  IN  IF m1.motionPaused THEN updateForces(m1) ELSE m1

\* updateAtomMotion( dt )
updateAtomMotion(m, dt) ==
  LET acceleration == m.repulsiveForce - m.attractiveForce
      newVelocity == Min(m.movableAtom.vx + acceleration * dt, 5000)
  IN  IF ~m.motionPaused
      THEN [ m EXCEPT !.movableAtom.ax = acceleration,
                      !.movableAtom.vx = newVelocity,
                      !.movableAtom.x = @ + newVelocity * dt ]
      ELSE [ m EXCEPT !.movableAtom.ax = acceleration ]

\* stepFixedAtomVibration: the outcomes for the draw of the offset
stepFixedAtomVibration(m) ==
  IF m.vibrationCounter > 0
  THEN IF m.fixedAtom.x # 0
       THEN { [ m EXCEPT !.fixedAtom.x = 0, !.vibrationCounter = @ - 1 ] }
       ELSE { [ m EXCEPT !.fixedAtom.x = xPos, !.vibrationCounter = @ - 1 ]
              : xPos \in VibrationOffsets }
  ELSE { [ m EXCEPT !.fixedAtom.x = 0 ] }

\* approximateEquivalentPotentialDistance( distance ): the potential at the
\* minimum force distance is the least one, so the loop steps to the left
\* at least once and at most MAX_APPROXIMATION_ITERATIONS times
approximateEquivalentPotentialDistance(m, distance) ==
  IF distance < calculateMinimumForceDistance(m.sigma) THEN { 0 }
  ELSE LET distanceChangePerIteration ==
             (distance - 1000 * m.sigma) \div MAX_APPROXIMATION_ITERATIONS
       IN  { calculateMinimumForceDistance(m.sigma) - k * distanceChangePerIteration
             : k \in { 1, MAX_APPROXIMATION_ITERATIONS } }

\* updateBondingState: the outcomes for the draws
updateBondingState(m) ==
  IF m.movableAtom.type = "OXYGEN" /\ m.fixedAtom.type = "OXYGEN"
  THEN CASE m.bondingState = "UNBONDED" ->
              IF /\ m.movableAtom.vx > THRESHOLD_VELOCITY
                 /\ 2 * Abs(m.movableAtom.x - m.fixedAtom.x) < 5000 * m.fixedAtom.radius
              THEN { [ m EXCEPT !.bondingState = "BONDING",
                                !.vibrationCounter = VIBRATION_COUNTER_RESET_VALUE ] }
              ELSE { m }
         [] m.bondingState = "BONDING" ->
              IF m.attractiveForce > m.repulsiveForce
              THEN LET minPotentialDistance == calculateMinimumForceDistance(m.sigma)
                       right == minPotentialDistance + 60 * m.movableAtom.radius
                   IN  UNION { stepFixedAtomVibration(
                                 [ m EXCEPT !.movableAtom.ax = 0,
                                            !.movableAtom.vx = 0,
                                            !.minPotentialDistance = minPotentialDistance,
                                            !.bondedOscillationRightDistance = right,
                                            !.bondedOscillationLeftDistance = left,
                                            !.bondingState = "BONDED" ])
                               : left \in approximateEquivalentPotentialDistance(m, right) }
              ELSE { m }
         [] OTHER ->
              LET m1 == [ m EXCEPT
                            !.movableAtom.ax = 0,
                            !.movableAtom.vx = 0,
                            !.movableAtom.x =
                              IF m.movableAtom.x > m.minPotentialDistance
                              THEN m.bondedOscillationLeftDistance
                              ELSE m.bondedOscillationRightDistance ]
              IN  IF m1.vibrationCounter > 0 THEN stepFixedAtomVibration(m1) ELSE { m1 }
  ELSE { m }

\* what the last operation on the DualAtomModel did: the atom type it
\* asked for, and for every iteration of stepInternal the bonding state
\* when the motion was or was not updated and the bonding states before
\* and after updateBondingState
NoDual ==
  [ op |-> "constructor", clock |-> 0, request |-> "none", iterations |-> << >> ]

\* an iteration that updates the motion in every bonding state
dualIterationAlwaysMoving(w, modelTimeStep) ==
  LET m1 == updateForces(w.m)
      m2 == updateAtomMotion(m1, modelTimeStep)
  IN  { [ m |-> m3,
          h |-> [ w.h EXCEPT !.iterations =
                    Append(@, [ stateAtMotion |-> m1.bondingState,
                                motionUpdated |-> TRUE,
                                bothOxygen |-> m2.movableAtom.type = "OXYGEN"
                                                 /\ m2.fixedAtom.type = "OXYGEN",
                                stateBefore |-> m2.bondingState,
                                stateAfter |-> m3.bondingState ]) ] ]
        : m3 \in updateBondingState(m2) }

\* one iteration of the loop of stepInternal
dualIteration(w, modelTimeStep) ==
  LET m1 == updateForces(w.m)
      moved == m1.bondingState # "BONDED"
      m2 == IF moved THEN updateAtomMotion(m1, modelTimeStep) ELSE m1
  IN  { [ m |-> m3,
          h |-> [ w.h EXCEPT !.iterations =
                    Append(@, [ stateAtMotion |-> m1.bondingState,
                                motionUpdated |-> moved,
                                bothOxygen |-> m2.movableAtom.type = "OXYGEN"
                                                 /\ m2.fixedAtom.type = "OXYGEN",
                                stateBefore |-> m2.bondingState,
                                stateAfter |-> m3.bondingState ]) ] ]
        : m3 \in updateBondingState(m2) }

\* the loop of stepInternal from iteration i on; the number of iterations
\* is dt / MAX_TIME_STEP, and extra is the one more for the residual time
RECURSIVE dualIterations(_, _, _, _, _)
dualIterations(w, dt, extra, modelTimeStep, i) ==
  IF (dt > MAX_TIME_STEP /\ (i - extra) * MAX_TIME_STEP >= dt)
     \/ (dt <= MAX_TIME_STEP /\ i >= 1 + extra)
  THEN { w }
  ELSE UNION { dualIterations(v, dt, extra, modelTimeStep, i + 1)
               : v \in dualIteration(w, modelTimeStep) }

\* stepInternal( dt ) of DualAtomModel; dt - ( dt / MAX_TIME_STEP ) *
\* MAX_TIME_STEP adds nothing to the residual time
dualStepInternal(w, dt) ==
  LET modelTimeStep == IF dt > MAX_TIME_STEP THEN MAX_TIME_STEP ELSE dt
      extra == IF w.m.residualTime > modelTimeStep THEN 1 ELSE 0
      w1 == IF extra = 1 THEN [ w EXCEPT !.m.residualTime = @ - modelTimeStep ] ELSE w
  IN  dualIterations(w1, dt, extra, modelTimeStep, 0)

\* step( simulationTimeStep ) of DualAtomModel
dualStep(w, simulationTimeStep) ==
  IF simulationTimeStep > MAX_ACCEPTED_FRAME THEN { w }
  ELSE IF w.m.isPlaying
  THEN dualStepInternal(w, IF w.m.speed = "normal"
                           THEN (simulationTimeStep * 3) \div 2
                           ELSE simulationTimeStep \div 2)
  ELSE { w }

InitDual ==
  \E fixedRadius \in AtomRadii, movableRadius \in AtomRadii :
    /\ model = DualAtomModel(fixedRadius, movableRadius)
    /\ hist = NoDual

\* the history of an operation that starts now
DualBegin(op, request) ==
  [ op |-> op, clock |-> hist.clock, request |-> request, iterations |-> << >> ]

DualSetFixedAtomType ==
  \E atomType \in DualAtomTypes, radius \in AtomRadii :
    /\ model' = setFixedAtomType(model, atomType, radius, FALSE)
    /\ hist' = DualBegin("setFixedAtomType", atomType)

DualSetMovableAtomType ==
  \E atomType \in DualAtomTypes, radius \in AtomRadii :
    /\ model' = setMovableAtomType(model, atomType, radius, FALSE)
    /\ hist' = DualBegin("setMovableAtomType", atomType)

DualSetBothAtomTypes ==
  \E atomType \in DualAtomTypes, fixedRadius \in AtomRadii, movableRadius \in AtomRadii :
    /\ model' = setBothAtomTypes(model, atomType, fixedRadius, movableRadius)
    /\ hist' = DualBegin("setBothAtomTypes", atomType)

DualReset ==
  \E fixedRadius \in AtomRadii, movableRadius \in AtomRadii :
    /\ model' = dualReset(model, fixedRadius, movableRadius)
    /\ hist' = DualBegin("reset", "NEON")

DualSetMotionPaused ==
  \E paused \in BOOLEAN :
    /\ model' = setMotionPaused(model, paused)
    /\ hist' = DualBegin("setMotionPaused", "none")

DualReleaseBond ==
  /\ model' = releaseBond(model)
  /\ hist' = DualBegin("releaseBond", "none")

\* the user drags the movable atom, which the view has paused
DualPositionChanged ==
  \E x \in DragPositions :
    /\ model.motionPaused
    /\ model' = positionChanged(model, x)
    /\ hist' = DualBegin("positionChanged", "none")

DualSetSpeed ==
  \E speed \in { "normal", "slow" } :
    /\ model' = [ model EXCEPT !.speed = speed ]
    /\ hist' = DualBegin("setSpeed", "none")

DualSetIsPlaying ==
  \E isPlaying \in BOOLEAN :
    /\ model' = [ model EXCEPT !.isPlaying = isPlaying ]
    /\ hist' = DualBegin("setIsPlaying", "none")

DualStep ==
  \E simulationTimeStep \in DualFrames :
    /\ hist.clock < MaxClockDual
    /\ \E w \in dualStep([ m |-> model,
                           h |-> [ DualBegin("step", "none") EXCEPT !.clock = @ + 1 ] ],
                         simulationTimeStep) :
         Becomes(w)

NextDual ==
  \/ DualSetFixedAtomType
  \/ DualSetMovableAtomType
  \/ DualSetBothAtomTypes
  \/ DualReset
  \/ DualSetMotionPaused
  \/ DualReleaseBond
  \/ DualPositionChanged
  \/ DualSetSpeed
  \/ DualSetIsPlaying
  \/ DualStep

SpecDual == InitDual /\ [][NextDual]_vars

\* both atoms are oxygen
BothOxygen(m) == m.movableAtom.type = "OXYGEN" /\ m.fixedAtom.type = "OXYGEN"

\* Claim C23: the bonding state of DualAtomModel goes forward only from
\* UNBONDED to BONDING to BONDED, by at most one stage in a call of
\* updateBondingState and only while both atoms are oxygen; it goes back to
\* UNBONDED only through releaseBond or a change of an atom type; when it
\* is not UNBONDED both atoms are oxygen; while it is BONDED stepInternal
\* leaves updateAtomMotion out and the velocity and the acceleration of the
\* movable atom are 0.
BondingStateAdvancesInOrder ==
  /\ [](model.bondingState # "UNBONDED" => BothOxygen(model))
  /\ [](model.bondingState = "BONDED"
          => model.movableAtom.vx = 0 /\ model.movableAtom.ax = 0)
  /\ [](\A k \in 1..Len(hist.iterations) :
          LET it == hist.iterations[k]
          IN  /\ \/ it.stateAfter = it.stateBefore
                 \/ /\ <<it.stateBefore, it.stateAfter>>
                         \in { <<"UNBONDED", "BONDING">>, <<"BONDING", "BONDED">> }
                    /\ it.bothOxygen
              /\ it.stateAtMotion = "BONDED" => ~it.motionUpdated)
  /\ [][ model'.bondingState # model.bondingState
           => \/ hist'.op = "step" /\ model'.bondingState # "UNBONDED"
              \/ /\ model'.bondingState = "UNBONDED"
                 /\ \/ hist'.op = "releaseBond"
                    \/ model'.fixedAtom.type # model.fixedAtom.type
                    \/ model'.movableAtom.type # model.movableAtom.type ]_vars

\* a step on bonded atoms: the iteration left the motion out
BondedStepLeftMotionOut ==
  /\ hist.op = "step"
  /\ model.bondingState = "BONDED"
  /\ Len(hist.iterations) > 0
  /\ hist.iterations[1].stateAtMotion = "BONDED"
  /\ ~hist.iterations[1].motionUpdated

\* Claim C24: after the constructor and any calls of setFixedAtomType,
\* setMovableAtomType, setBothAtomTypes and reset the fixed atom is
\* adjustable exactly when the movable atom is; a request that would make
\* just one of them adjustable is ignored: the atoms, sigma, epsilon and the
\* bonding state stay as they were.
AdjustableOnlyTogether ==
  /\ [](model.fixedAtom.type = "ADJUSTABLE" <=> model.movableAtom.type = "ADJUSTABLE")
  /\ [][ \/ /\ hist'.op = "setFixedAtomType"
            /\ JustOneAdjustable(hist'.request, model.movableAtom)
         \/ /\ hist'.op = "setMovableAtomType"
            /\ JustOneAdjustable(hist'.request, model.fixedAtom)
         => /\ model'.fixedAtom = model.fixedAtom
            /\ model'.movableAtom = model.movableAtom
            /\ model'.sigma = model.sigma
            /\ model'.epsilon = model.epsilon
            /\ model'.bondingState = model.bondingState ]_vars

\* an adjustable fixed atom was asked for while two oxygen atoms are bonded
AdjustableRequestIgnoredWhileBonded ==
  /\ hist.op = "setFixedAtomType"
  /\ hist.request = "ADJUSTABLE"
  /\ model.fixedAtom.type = "OXYGEN"
  /\ model.movableAtom.type = "OXYGEN"
  /\ model.bondingState = "BONDED"

\* Claim C27: while motionPaused is true, step and stepInternal change
\* neither the position nor the velocity of the movable atom, in any
\* bonding state; only the acceleration and the stored forces are updated.
PausedStepKeepsAtomInPlace ==
  [][ hist'.op = "step" /\ model.motionPaused
        => /\ model'.movableAtom.x = model.movableAtom.x
           /\ model'.movableAtom.vx = model.movableAtom.vx ]_vars

=============================================================================
